---- MODULE Spec2Model ----
(***************************************************************************)
(* retrodep: identification of the upstream tag or revision of a Go        *)
(* project by comparing file hashes (retrodep/vendored.go).                *)
(*                                                                         *)
(* Strings are TLA+ strings; SubSeq, Len and \o act on them as on          *)
(* sequences of characters.  An error is a record of its text and of the   *)
(* context it was wrapped with.                                            *)
(***************************************************************************)
EXTENDS Integers, Sequences, FiniteSets, TLC

VARIABLES
    project,    \* *RepoPath handed to DescribeProject
    src,        \* the GoSource receiver (Path, usesGodep)
    dir,        \* the directory whose files are compared
    pc,         \* position inside DescribeProject
    phase,      \* which matchFromRefs call is running: pinned, tags, revs
    hashes,     \* local FileHashes.hashes after the dot-file filter
    strip,      \* vendored.go:324
    refs,       \* matchFromRefs: the refs argument
    idx,        \* matchFromRefs: 1-based position of the range loop
    loop,       \* matchFromRefs: [matches, stop, err]
    hist,       \* candidates tested by the running or last finished phase,
                \* each with the calls made on the working tree for it
    wt,         \* the working tree: [state, checkout, closes] and dir, the
                \* temporary directory of the checkout: none, present, removed
    called,     \* the WorkingTree operations called so far
    log,        \* return values of the calls the Reference is built from
    seen,       \* per phase: how it ended
    raised,     \* the first error other than the two recoverable sentinels,
                \* and whether a WorkingTree call followed it
    result,     \* what DescribeProject returned
    cbtIn,      \* chooseBestTag: argument
    cbtOut,     \* chooseBestTag: return value
    fnIn,       \* arguments of the function a single-function specification calls
    fnOut       \* what that function returned

vars == <<project, src, dir, pc, phase, hashes, strip, refs, idx, loop, hist,
          wt, called, log, seen, raised, result, cbtIn, cbtOut, fnIn, fnOut>>

dpVars == <<project, src, dir, pc, phase, hashes, strip, refs, idx, loop, hist,
            wt, called, log, seen, raised, result>>

cbtVars == <<cbtIn, cbtOut>>

fnVars == <<fnIn, fnOut>>

\* the variables DescribeProject leaves alone
otherVars == <<cbtIn, cbtOut, fnIn, fnOut>>

\* an error value: its text and the context pkg/errors wrapped around it
Err(name) == [name |-> name, wrap |-> ""]

\* the nil error
Nil == Err("")

(***************************************************************************)
(* Bounds of the model.                                                    *)
(***************************************************************************)
MaxTags == 3
MaxRevs == 3
MaxList == 3
MaxFiles == 3

(***************************************************************************)
(* Sentinel errors.                                                        *)
(***************************************************************************)
ErrorVersionNotFound == Err("version not found")
ErrorInvalidRef == Err("invalid ref")
ErrorUnknownVCS == Err("unknown VCS")
ErrorNoFiles == Err("no files to hash")

vcsGit == "git"
vcsHg == "hg"

(***************************************************************************)
(* String helpers.                                                         *)
(***************************************************************************)
Char(s, i) == SubSeq(s, i, i)

Min(S) == CHOOSE x \in S : \A y \in S : x <= y

Max(S) == CHOOSE x \in S : \A y \in S : y <= x

\* strings.Index: 1-based position of the first c in s, 0 when absent
IndexOf(s, c) ==
    LET hits == {i \in 1..Len(s) : Char(s, i) = c}
    IN  IF hits = {} THEN 0 ELSE Min(hits)

HasPrefix(s, p) == Len(s) >= Len(p) /\ SubSeq(s, 1, Len(p)) = p

HasSuffix(s, p) == Len(s) >= Len(p) /\ SubSeq(s, Len(s) - Len(p) + 1, Len(s)) = p

RECURSIVE Split(_, _)
\* strings.Split for a one-character separator
Split(s, sep) ==
    LET k == IndexOf(s, sep)
    IN  IF k = 0 THEN <<s>>
        ELSE <<SubSeq(s, 1, k - 1)>> \o Split(SubSeq(s, k + 1, Len(s)), sep)

\* filepath.Join of a sub-path and a relative path
JoinPath(a, b) == IF a = "" THEN b ELSE a \o "/" \o b

Digits == <<"0", "1", "2", "3", "4", "5", "6", "7", "8", "9">>

DigitSet == {Digits[i] : i \in 1..10}

LetterSet ==
    {"a", "b", "c", "d", "e", "f", "g", "h", "i", "j", "k", "l", "m",
     "n", "o", "p", "q", "r", "s", "t", "u", "v", "w", "x", "y", "z",
     "A", "B", "C", "D", "E", "F", "G", "H", "I", "J", "K", "L", "M",
     "N", "O", "P", "Q", "R", "S", "T", "U", "V", "W", "X", "Y", "Z"}

DigitVal(c) == (CHOOSE i \in 1..10 : Digits[i] = c) - 1

IsNumeric(s) == Len(s) > 0 /\ \A i \in 1..Len(s) : Char(s, i) \in DigitSet

RECURSIVE StrToNat(_)
StrToNat(s) ==
    IF Len(s) = 0 THEN 0
    ELSE 10 * StrToNat(SubSeq(s, 1, Len(s) - 1)) + DigitVal(Char(s, Len(s)))

RECURSIVE NatToStr(_)
NatToStr(n) ==
    IF n < 10 THEN Digits[n + 1] ELSE NatToStr(n \div 10) \o Digits[(n % 10) + 1]

(***************************************************************************)
(* semver.NewVersion (github.com/Masterminds/semver), as used by           *)
(* chooseBestTag and PseudoVersion: optional v, one to three numeric       *)
(* parts, optional -prerelease, optional +metadata.                        *)
(***************************************************************************)
IsIdentChar(c) == c \in DigitSet \/ c \in LetterSet \/ c = "-"

\* [0-9A-Za-z\-]+(\.[0-9A-Za-z\-]+)*
IsIdents(s) ==
    LET parts == Split(s, ".")
    IN  \A k \in 1..Len(parts) :
            /\ Len(parts[k]) > 0
            /\ \A i \in 1..Len(parts[k]) : IsIdentChar(Char(parts[k], i))

\* the parts of a version string: the numeric parts, the prerelease and the
\* metadata, each checked against its pattern
SemverFields(nums, pre, meta, hasPre, hasMeta) ==
    IF ~(/\ Len(nums) <= 3
         /\ \A k \in 1..Len(nums) : IsNumeric(nums[k])
         /\ ~hasPre \/ IsIdents(pre)
         /\ ~hasMeta \/ IsIdents(meta))
    THEN [ok |-> FALSE]
    ELSE [ok    |-> TRUE,
          major |-> StrToNat(nums[1]),
          minor |-> IF Len(nums) >= 2 THEN StrToNat(nums[2]) ELSE 0,
          patch |-> IF Len(nums) >= 3 THEN StrToNat(nums[3]) ELSE 0,
          pre   |-> pre,
          meta  |-> meta]

\* main is the text before the metadata, dash the position of its first "-"
SemverCore(main, dash, meta, hasMeta) ==
    SemverFields(Split(IF dash = 0 THEN main ELSE SubSeq(main, 1, dash - 1), "."),
                 IF dash = 0 THEN "" ELSE SubSeq(main, dash + 1, Len(main)),
                 meta, dash # 0, hasMeta)

\* body is the text after the optional v, plus the position of its first "+"
SemverBody(body, plus) ==
    SemverCore(IF plus = 0 THEN body ELSE SubSeq(body, 1, plus - 1),
               IndexOf(IF plus = 0 THEN body ELSE SubSeq(body, 1, plus - 1), "-"),
               IF plus = 0 THEN "" ELSE SubSeq(body, plus + 1, Len(body)),
               plus # 0)

SemverUnprefixed(body) == SemverBody(body, IndexOf(body, "+"))

NewVersion(s) ==
    SemverUnprefixed(IF HasPrefix(s, "v") THEN SubSeq(s, 2, Len(s)) ELSE s)

\* Version.Prerelease
Prerelease(v) == v.pre

\* Version.IncPatch: a release gets the next patch number, a prerelease
\* becomes its release
IncPatch(v) ==
    IF v.pre # "" THEN [v EXCEPT !.pre = "", !.meta = ""]
    ELSE [v EXCEPT !.patch = v.patch + 1, !.meta = ""]

\* Version.String
VersionString(v) ==
    NatToStr(v.major) \o "." \o NatToStr(v.minor) \o "." \o NatToStr(v.patch)
        \o (IF v.pre = "" THEN "" ELSE "-" \o v.pre)
        \o (IF v.meta = "" THEN "" ELSE "+" \o v.meta)

(***************************************************************************)
(* FileHashes: a function from relative paths to hashes.                   *)
(***************************************************************************)
EmptyHashes == [p \in {} |-> "h1"]

\* FileHashes.Mismatches with failFast = FALSE, as a set of paths
Mismatches(h, s) ==
    {p \in DOMAIN h : p \notin DOMAIN s \/ h[p] # s[p]}

\* FileHashes.IsSubsetOf
IsSubsetOf(h, s) == Mismatches(h, s) = {}

\* as MismatchAt, but the hashes are compared with == instead of !=
MismatchAtInverted(h, s, path) == path \notin DOMAIN s \/ h[path] = s[path]

\* as MismatchAt, but only a path missing from s counts
MismatchAtMissingOnly(h, s, path) == path \notin DOMAIN s

\* the test the range loop of Mismatches makes on one entry of h
MismatchAt(h, s, path) == path \notin DOMAIN s \/ h[path] # s[path]

RECURSIVE MismatchesRange(_, _, _, _, _, _)
RECURSIVE MismatchesNext(_, _, _, _, _, _)
\* the range loop of Mismatches over h.hashes, visited in the order `order`,
\* from position i on; acc is the slice mismatches (<<>> is nil)
MismatchesRange(h, s, failFast, order, i, acc) ==
    IF i > Len(order) THEN acc
    ELSE MismatchesNext(h, s, failFast, order, i,
                        IF MismatchAt(h, s, order[i]) THEN Append(acc, order[i]) ELSE acc)

\* if failFast && mismatches != nil { return mismatches }
MismatchesNext(h, s, failFast, order, i, acc) ==
    IF failFast /\ acc # <<>> THEN acc
    ELSE MismatchesRange(h, s, failFast, order, i + 1, acc)

\* FileHashes.Mismatches, the map being ranged over in the order `order`
MismatchesSlice(h, s, failFast, order) == MismatchesRange(h, s, failFast, order, 1, <<>>)

\* FileHashes.IsSubsetOf: h.Mismatches(s, true) == nil
IsSubsetOfRange(h, s, order) == MismatchesSlice(h, s, TRUE, order) = <<>>

\* NewHasher: only git and hg have a hasher
NewHasher(vcsCmd) ==
    IF vcsCmd = vcsGit THEN [ok |-> TRUE, h |-> "gitHasher"]
    ELSE IF vcsCmd = vcsHg THEN [ok |-> TRUE, h |-> "sha256Hasher"]
    ELSE [ok |-> FALSE]

\* as DropDotFiles, but no entry is deleted
DropDotFilesKeepsAll(h) == h

\* vendored.go:311-316: entries whose path starts with a dot are deleted
DropDotFiles(h) ==
    [p \in {q \in DOMAIN h : ~HasPrefix(q, ".")} |-> h[p]]

(***************************************************************************)
(* Errors.                                                                 *)
(***************************************************************************)
\* errors.Wrap / errors.Wrapf (github.com/pkg/errors)
Wrap(e, msg) == [e EXCEPT !.wrap = msg]

\* errors.Cause
Cause(e) == [e EXCEPT !.wrap = ""]

(***************************************************************************)
(* chooseBestTag                                                           *)
(***************************************************************************)
RECURSIVE BestFrom(_, _)
\* the loop of chooseBestTag, from index i down to 1; 0 when it falls out
BestFrom(tags, i) ==
    IF i < 1 THEN 0
    ELSE LET v == NewVersion(tags[i])
         IN  IF ~v.ok THEN BestFrom(tags, i - 1)
             ELSE IF Prerelease(v) = "" THEN i
             ELSE BestFrom(tags, i - 1)

RECURSIVE FirstRelease(_, _)
FirstRelease(tags, i) ==
    IF i > Len(tags) THEN 0
    ELSE LET v == NewVersion(tags[i])
         IN  IF v.ok /\ Prerelease(v) = "" THEN i ELSE FirstRelease(tags, i + 1)

\* as chooseBestTag, but scanning from the newest tag
chooseNewestTag(tags) ==
    LET i == FirstRelease(tags, 1)
    IN  IF i > 0 THEN tags[i] ELSE tags[1]

chooseBestTag(tags) ==
    LET i == BestFrom(tags, Len(tags))
    IN  IF i > 0 THEN tags[i] ELSE tags[Len(tags)]

(***************************************************************************)
(* PseudoVersion                                                           *)
(***************************************************************************)
\* A time.Time is its wall-clock fields in its own location, and off, the
\* minutes that location is east of UTC.
Pad2(n) == IF n < 10 THEN "0" \o NatToStr(n) ELSE NatToStr(n)

\* time.Time.Format("20060102150405"): the wall clock of t in t's location
FormatTime(t) ==
    NatToStr(t.year) \o Pad2(t.month) \o Pad2(t.day)
        \o Pad2(t.hour) \o Pad2(t.min) \o Pad2(t.sec)

\* as PseudoBase, but a release tag keeps its patch number
PseudoBaseSamePatch(reach, ver) ==
    IF reach.err = ErrorVersionNotFound THEN "v0.0.0" \o "-0."
    ELSE IF ~ver.ok THEN reach.tag \o "-1."
    ELSE IF Prerelease(ver) = "" THEN "v" \o VersionString(ver) \o "-0."
    ELSE "v" \o VersionString(ver) \o ".0."

\* the version and the suffix PseudoVersion derives from the reachable tag,
\* ver being semver.NewVersion of that tag
PseudoBase(reach, ver) ==
    IF reach.err = ErrorVersionNotFound THEN "v0.0.0" \o "-0."
    ELSE IF ~ver.ok THEN reach.tag \o "-1."
    ELSE IF Prerelease(ver) = "" THEN "v" \o VersionString(IncPatch(ver)) \o "-0."
    ELSE "v" \o VersionString(ver) \o ".0."

\* vcsCmd is the VCS of the working tree, reach what ReachableTag returned,
\* tm what TimeFromRevision returned (unused when it was not called).
\* rev[:12] of a shorter rev is a run-time panic.
PseudoVersion(vcsCmd, reach, tm, rev) ==
    IF vcsCmd # vcsGit THEN [kind |-> "err", err |-> ErrorUnknownVCS]
    ELSE IF reach.err # Nil /\ reach.err # ErrorVersionNotFound
    THEN [kind |-> "err", err |-> reach.err]
    ELSE IF tm.err # Nil THEN [kind |-> "err", err |-> tm.err]
    ELSE IF Len(rev) < 12 THEN [kind |-> "panic"]
    ELSE [kind |-> "ok",
          ver  |-> PseudoBase(reach, NewVersion(reach.tag)) \o FormatTime(tm.t)
                       \o "-" \o SubSeq(rev, 1, 12)]

\* as CallsTime, but the commit time is asked for whatever ReachableTag said
CallsTimeAlways(reach) == TRUE

\* does PseudoVersion call TimeFromRevision after this ReachableTag result
CallsTime(reach) == reach.err = Nil \/ reach.err = ErrorVersionNotFound

\* the calls PseudoVersion makes on the working tree
PseudoVersionCalls(vcsCmd, reach) ==
    IF vcsCmd # vcsGit THEN {}
    ELSE {"ReachableTag"} \cup (IF CallsTime(reach) THEN {"TimeFromRevision"} ELSE {})

(***************************************************************************)
(* The upstream repository and the local directory: what the calls on the  *)
(* WorkingTree and the file system can answer.                             *)
(***************************************************************************)
RevA == "d4c3dbfa77a74ae238e401d5d2197b45f30d8513"
RevB == "0123456789abcdef0123456789abcdef01234567"
RevC == "87998cd070d9e7a2c79f8b153a26bea0425582e5"

\* the semver tags of the repository, newest first
TagOrder == <<"v2.0.0", "v1.1.0-rc1", "v1.0.0", "v1.0.0-rc1">>

\* the revisions of the repository, newest first
RevOrder == <<RevA, RevB, RevC>>

RECURSIVE Pick(_, _, _)
\* the elements of order at the positions in S, from position i on
Pick(order, S, i) ==
    IF i > Len(order) THEN <<>>
    ELSE (IF i \in S THEN <<order[i]>> ELSE <<>>) \o Pick(order, S, i + 1)

\* the lists of at most n elements that keep the order of `order`
SubLists(order, n) ==
    {Pick(order, S, 1) : S \in {T \in SUBSET (1..Len(order)) : Cardinality(T) <= n}}

\* files of the local directory, as NewFileHashes hashes them
LocalTrees ==
    { EmptyHashes,
      [p \in {".gitignore"} |-> "h1"],
      [p \in {"a.go", ".gitignore"} |-> "h1"],
      [p \in {"a.go", "b.txt"} |-> "h1"] }

\* files of an upstream ref, keyed relative to the sub-path; the last one
\* has a directory pkg of its own below the sub-path
UpTrees ==
    { [p \in {"a.go", "b.txt"} |-> "h1"],
      [p \in {"a.go", "b.txt"} |-> IF p = "a.go" THEN "h2" ELSE "h1"],
      [p \in {"b.txt"} |-> "h1"],
      [p \in {"pkg/a.go", "b.txt"} |-> "h1"] }

ErrTempDir == Err("temp dir failed")
ErrClone == Err("clone failed")
ErrGoSource == Err("no Go source")
ErrWalk == Err("walk failed")
ErrLsTree == Err("ls-tree failed")
ErrCheckout == Err("checkout failed")
ErrOpen == Err("open failed")
ErrTempFile == Err("temp file failed")
ErrHash == Err("hash-object failed")
ErrTags == Err("tags failed")
ErrRevParse == Err("rev-parse failed")
ErrRevList == Err("rev-list failed")
ErrDescribe == Err("describe failed")
ErrShow == Err("show failed")

\* what FileHashesFromRef can return
FHOutcomes ==
    {[err |-> ErrorInvalidRef, tree |-> EmptyHashes],
     [err |-> ErrLsTree, tree |-> EmptyHashes]}
        \cup {[err |-> Nil, tree |-> t] : t \in UpTrees}

\* what StripImportComment and the re-hash of its output can do to a .go file
StripOutcomes ==
    {[err |-> ErrOpen, changed |-> FALSE, tmp |-> Nil, herr |-> Nil, hash |-> ""],
     [err |-> Nil, changed |-> FALSE, tmp |-> Nil, herr |-> Nil, hash |-> ""],
     [err |-> Nil, changed |-> TRUE, tmp |-> ErrTempFile, herr |-> Nil, hash |-> ""],
     [err |-> Nil, changed |-> TRUE, tmp |-> Nil, herr |-> ErrHash, hash |-> ""],
     [err |-> Nil, changed |-> TRUE, tmp |-> Nil, herr |-> Nil, hash |-> "h1"],
     [err |-> Nil, changed |-> TRUE, tmp |-> Nil, herr |-> Nil, hash |-> "h3"]}

\* what the checkout of a ref answers: RevSync, and the strip of each .go file
StripEnvs == [sync : {Nil, ErrCheckout}, file : StripOutcomes]

NoStripEnv ==
    [sync |-> Nil,
     file |-> [err |-> Nil, changed |-> FALSE, tmp |-> Nil, herr |-> Nil, hash |-> ""]]

ReachOutcomes ==
    {[err |-> ErrorVersionNotFound, tag |-> ""], [err |-> ErrDescribe, tag |-> ""]}
        \cup {[err |-> Nil, tag |-> t] : t \in {"v1.2.0", "v1.2.0-pre1", "v1.2.0beta1"}}

\* the zero time.Time
ZeroTime ==
    [year |-> 1, month |-> 1, day |-> 1, hour |-> 0, min |-> 0, sec |-> 0, off |-> 0]

\* time.Parse(time.RFC3339, s) of yyyy-mm-ddThh:mm:ss and a zone, Z or
\* +hh:mm or -hh:mm: the time keeps the wall clock and the offset it was
\* written with
ParseRFC3339(s) ==
    [year  |-> StrToNat(SubSeq(s, 1, 4)),
     month |-> StrToNat(SubSeq(s, 6, 7)),
     day   |-> StrToNat(SubSeq(s, 9, 10)),
     hour  |-> StrToNat(SubSeq(s, 12, 13)),
     min   |-> StrToNat(SubSeq(s, 15, 16)),
     sec   |-> StrToNat(SubSeq(s, 18, 19)),
     off   |-> IF Char(s, 20) = "Z" THEN 0
               ELSE (IF Char(s, 20) = "-" THEN 0 - 1 ELSE 1)
                        * (60 * StrToNat(SubSeq(s, 21, 22)) + StrToNat(SubSeq(s, 24, 25)))]

\* gitWorkingTree.TimeFromRevision: run is what git show -s
\* --pretty=format:%cI answered, its output without the surrounding space
TimeFromRevision(run) ==
    IF run.err # Nil THEN [err |-> run.err, t |-> ZeroTime]
    ELSE [err |-> Nil, t |-> ParseRFC3339(run.out)]

\* git reports the committer date in the committer's own zone
ShowOutcomes ==
    {[err |-> ErrShow, out |-> ""],
     [err |-> Nil, out |-> "2006-01-02T15:04:05Z"],
     [err |-> Nil, out |-> "2018-09-20T16:47:29+01:00"]}

TimeOutcomes == {TimeFromRevision(run) : run \in ShowOutcomes}

NoTime == [err |-> Nil, t |-> ZeroTime]

\* all orders in which a range over a Go map can visit the set S
Orders(S) ==
    {o \in [1..Cardinality(S) -> S] : \A i, j \in 1..Cardinality(S) : o[i] = o[j] => i = j}

(***************************************************************************)
(* updateHashesAfterStrip and matchFromRefs                                *)
(***************************************************************************)
\* StripImportComment(path, w) and the re-hash, vendored.go:128-163:
\* files that are not Go source are left alone without being opened
StripOne(path, env) ==
    IF ~HasSuffix(path, ".go") THEN NoStripEnv.file ELSE env.file

\* hashes.hashes[path] = h
SetHash(th, path, h) ==
    [q \in DOMAIN th \cup {path} |-> IF q = path THEN h ELSE th[q]]

RECURSIVE StripLoop(_, _, _, _, _)
\* the range loop of updateHashesAfterStrip over paths[i..]; the error of
\* StripImportComment arrives wrapped by StripImportComment itself
\* (workingtree.go:881-884), the errors of the temporary file are wrapped here
StripLoop(th, paths, i, env, anyChanged) ==
    IF i > Len(paths) THEN [changed |-> anyChanged, err |-> Nil, th |-> th, n |-> i - 1]
    ELSE LET o == StripOne(paths[i], env)
         IN  IF o.err # Nil
             THEN [changed |-> FALSE, err |-> Wrap(o.err, "StripImportComment"), th |-> th, n |-> i]
             ELSE IF ~o.changed THEN StripLoop(th, paths, i + 1, env, anyChanged)
             ELSE IF o.tmp # Nil
             THEN [changed |-> anyChanged, err |-> Wrap(o.tmp, "updating hash"), th |-> th, n |-> i]
             ELSE IF o.herr # Nil
             THEN [changed |-> anyChanged, err |-> o.herr, th |-> th, n |-> i]
             ELSE StripLoop(SetHash(th, paths[i], o.hash), paths, i + 1, env, TRUE)

\* synced: RevSync was called; n: number of StripImportComment calls
updateHashesAfterStrip(th, ref, paths, env) ==
    IF env.sync # Nil
    THEN [changed |-> FALSE, err |-> Wrap(env.sync, "RevSync to " \o ref), th |-> th, n |-> 0]
    ELSE StripLoop(th, paths, 1, env, FALSE)

\* matchFromRefs, vendored.go:171-176: the local paths below subPath
StripPaths(strp, h, subPath) ==
    IF strp THEN {JoinPath(subPath, p) : p \in DOMAIN h} ELSE {}

\* does the closure matchFromRef reach updateHashesAfterStrip for th
ReachesStrip(strp, h, subPath, th) ==
    /\ ~IsSubsetOf(h, th)
    /\ strp
    /\ \A path \in StripPaths(strp, h, subPath) : path \in DOMAIN th

\* the closure matchFromRef, vendored.go:178-200; paths is StripPaths in the
\* order the map range produced it
matchFromRef(strp, h, subPath, th, ref, paths, env) ==
    IF IsSubsetOf(h, th) THEN [ok |-> TRUE, err |-> Nil, synced |-> FALSE, n |-> 0]
    ELSE IF ~strp THEN [ok |-> FALSE, err |-> Nil, synced |-> FALSE, n |-> 0]
    ELSE IF \E i \in 1..Len(paths) : paths[i] \notin DOMAIN th
    THEN [ok |-> FALSE, err |-> Nil, synced |-> FALSE, n |-> 0]
    ELSE LET u == updateHashesAfterStrip(th, ref, paths, env)
         IN  IF u.err # Nil
             THEN [ok |-> FALSE, err |-> u.err, synced |-> TRUE, n |-> u.n]
             ELSE [ok |-> u.changed /\ IsSubsetOf(h, u.th), err |-> Nil,
                   synced |-> TRUE, n |-> u.n]

\* one candidate as the loop of matchFromRefs sees it: the error of
\* FileHashesFromRef, then the result of matchFromRef
Candidate(fo, m) ==
    IF fo.err # Nil THEN [fherr |-> fo.err, ok |-> FALSE, err |-> Nil]
    ELSE [fherr |-> Nil, ok |-> m.ok, err |-> m.err]

EmptyLoop == [matches |-> <<>>, stop |-> FALSE, err |-> Nil]

\* as LoopStep, but a ref that is not valid ends a run like a mismatch
LoopStepInvalidEndsRun(st, ref, c) ==
    IF st.stop THEN st
    ELSE IF c.fherr # Nil /\ c.fherr # ErrorInvalidRef
    THEN [st EXCEPT !.stop = TRUE, !.err = c.fherr]
    ELSE IF c.fherr = Nil /\ c.err # Nil THEN [st EXCEPT !.stop = TRUE, !.err = c.err]
    ELSE IF c.fherr = Nil /\ c.ok THEN [st EXCEPT !.matches = Append(@, ref)]
    ELSE IF Len(st.matches) > 0 THEN [st EXCEPT !.stop = TRUE]
    ELSE st

\* as LoopStep, but the loop goes on after the end of a run
LoopStepNoBreak(st, ref, c) ==
    IF st.stop THEN st
    ELSE IF c.fherr # Nil
    THEN IF c.fherr = ErrorInvalidRef THEN st
         ELSE [st EXCEPT !.stop = TRUE, !.err = c.fherr]
    ELSE IF c.err # Nil THEN [st EXCEPT !.stop = TRUE, !.err = c.err]
    ELSE IF c.ok THEN [st EXCEPT !.matches = Append(@, ref)]
    ELSE st

\* as LoopStep, but every error of FileHashesFromRef skips the candidate
LoopStepSkipsErrors(st, ref, c) ==
    IF st.stop THEN st
    ELSE IF c.fherr # Nil THEN st
    ELSE IF c.err # Nil THEN [st EXCEPT !.stop = TRUE, !.err = c.err]
    ELSE IF c.ok THEN [st EXCEPT !.matches = Append(@, ref)]
    ELSE IF Len(st.matches) > 0 THEN [st EXCEPT !.stop = TRUE]
    ELSE st

\* one iteration of the range loop of matchFromRefs, vendored.go:203-222
LoopStep(st, ref, c) ==
    IF st.stop THEN st
    ELSE IF c.fherr # Nil
    THEN IF c.fherr = ErrorInvalidRef THEN st
         ELSE [st EXCEPT !.stop = TRUE, !.err = c.fherr]
    ELSE IF c.err # Nil THEN [st EXCEPT !.stop = TRUE, !.err = c.err]
    ELSE IF c.ok THEN [st EXCEPT !.matches = Append(@, ref)]
    ELSE IF Len(st.matches) > 0 THEN [st EXCEPT !.stop = TRUE]
    ELSE st

\* what matchFromRefs returns when its loop is left, vendored.go:210-228
matchFromRefsReturn(st) ==
    IF st.err # Nil THEN [matches |-> <<>>, err |-> st.err]
    ELSE IF Len(st.matches) = 0 THEN [matches |-> <<>>, err |-> ErrorVersionNotFound]
    ELSE [matches |-> st.matches, err |-> Nil]

(***************************************************************************)
(* GoSource.DescribeProject                                                *)
(***************************************************************************)
NoReference == [Pkg |-> "", Repo |-> "", Tag |-> "", Rev |-> "", Ver |-> ""]

NoCall == [arg |-> "", ret |-> "", err |-> Nil]

NoReach == [err |-> Nil, tag |-> ""]

NoSeen == [pinned |-> "notrun", tags |-> "notrun", revs |-> "notrun"]

Projects ==
    [Root : {"github.com/foo/bar"}, Repo : {"https://github.com/foo/bar"},
     VCS : {vcsGit, "bzr"}, SubPath : {"", "pkg"}, Version : {"", RevA, "v1.0.0"}]

DPInit ==
    /\ project \in Projects
    /\ src \in [Path : {"/src"}, usesGodep : BOOLEAN]
    /\ dir \in {"/src", "/src/vendor/github.com/foo/bar"}
    /\ pc = "start"
    /\ phase = "none"
    /\ hashes = EmptyHashes
    /\ strip = FALSE
    /\ refs = <<>>
    /\ idx = 1
    /\ loop = EmptyLoop
    /\ hist = <<>>
    /\ wt = [state |-> "none", checkout |-> "", closes |-> 0, dir |-> "none"]
    /\ called = {}
    /\ log = [pinned |-> [fo |-> [err |-> ErrLsTree, tree |-> EmptyHashes], env |-> NoStripEnv],
              rft |-> NoCall, pvArg |-> "", reach |-> NoReach, tm |-> NoTime,
              pv |-> [kind |-> "none"]]
    /\ seen = NoSeen
    /\ raised = [err |-> Nil, late |-> FALSE]
    /\ result = [kind |-> "none", ref |-> NoReference, err |-> Nil]

\* WorkingTree.Close: the checkout directory is removed
Close(w) == [w EXCEPT !.state = "closed", !.closes = @ + 1, !.dir = "removed"]

\* as Deferred, but nothing is deferred
DeferredMissing(w) == w

\* a return of DescribeProject: the deferred wt.Close() of vendored.go:282
\* runs when the working tree was created
Deferred(w) == IF w.state = "none" THEN w ELSE Close(w)

Return(res, w) ==
    /\ result' = res
    /\ pc' = "done"
    /\ wt' = Deferred(w)

ReturnErr(e) == [kind |-> "err", ref |-> NoReference, err |-> e]

ReturnRef(r) == [kind |-> "ok", ref |-> r, err |-> Nil]

\* rev[:12] out of range: the goroutine panics, deferred calls still run
ReturnPanic == [kind |-> "panic", ref |-> NoReference, err |-> Nil]

\* the calls ops are made on the working tree
Calls(ops) ==
    /\ called' = called \cup ops
    /\ raised' = IF raised.err # Nil /\ ops # {} THEN [raised EXCEPT !.late = TRUE]
                 ELSE raised

\* as Calls, and the last of the calls failed with e (Nil: none failed)
CallsRaising(ops, e) ==
    /\ called' = called \cup ops
    /\ raised' = IF raised.err # Nil
                 THEN (IF ops # {} THEN [raised EXCEPT !.late = TRUE] ELSE raised)
                 ELSE [raised EXCEPT !.err = e]

\* the step of NewWorkingTree that fails, or none
NewWorkingTreeFailures == {"TempDir", "Create", "NewGoSource", "none"}

\* NewWorkingTree, workingtree.go:613-632: the error it returns and what has
\* become of the temporary directory by then
NewWorkingTree(fails) ==
    IF fails = "TempDir" THEN [err |-> ErrTempDir, dir |-> "none"]
    ELSE IF fails = "Create" THEN [err |-> ErrClone, dir |-> "present"]
    ELSE IF fails = "NewGoSource" THEN [err |-> ErrGoSource, dir |-> "present"]
    ELSE [err |-> Nil, dir |-> "present"]

\* vendored.go:278-282
NewWorkingTreeStep ==
    /\ pc = "start"
    /\ \E fails \in NewWorkingTreeFailures :
          IF NewWorkingTree(fails).err # Nil
          THEN /\ Return(ReturnErr(NewWorkingTree(fails).err),
                         [wt EXCEPT !.dir = NewWorkingTree(fails).dir])
               /\ raised' = [raised EXCEPT !.err = NewWorkingTree(fails).err]
          ELSE /\ wt' = [wt EXCEPT !.state = "open", !.dir = NewWorkingTree(fails).dir]
               /\ pc' = "hash"
               /\ UNCHANGED <<result, raised>>
    /\ UNCHANGED <<project, src, dir, phase, hashes, strip, refs, idx, loop, hist,
                   called, log, seen>>
    /\ UNCHANGED otherVars

\* vendored.go:284-324
HashLocalStep ==
    /\ pc = "hash"
    /\ IF ~NewHasher(project.VCS).ok
       THEN /\ Return(ReturnErr(ErrorUnknownVCS), wt)
            /\ raised' = [raised EXCEPT !.err = ErrorUnknownVCS]
            /\ UNCHANGED <<hashes, strip>>
       ELSE \E fo \in {[err |-> ErrWalk, tree |-> EmptyHashes]}
                         \cup {[err |-> Nil, tree |-> t] : t \in LocalTrees} :
               IF fo.err # Nil
               THEN /\ Return(ReturnErr(fo.err), wt)
                    /\ raised' = [raised EXCEPT !.err = fo.err]
                    /\ UNCHANGED <<hashes, strip>>
               ELSE /\ hashes' = DropDotFiles(fo.tree)
                    /\ IF DOMAIN hashes' = {}
                       THEN /\ Return(ReturnErr(ErrorNoFiles), wt)
                            /\ raised' = [raised EXCEPT !.err = ErrorNoFiles]
                            /\ UNCHANGED strip
                       ELSE /\ strip' = (src.usesGodep /\ dir # src.Path)
                            /\ pc' = IF project.Version # "" THEN "pinned" ELSE "tags"
                            /\ UNCHANGED <<result, wt, raised>>
    /\ UNCHANGED <<project, src, dir, phase, refs, idx, loop, hist, called, log, seen>>
    /\ UNCHANGED otherVars

\* matchFromRefs is entered with the list rs
EnterLoop(ph, rs) ==
    /\ phase' = ph
    /\ refs' = rs
    /\ idx' = 1
    /\ loop' = EmptyLoop
    /\ hist' = <<>>
    /\ pc' = "loop"

\* vendored.go:327-329
PinnedBegin ==
    /\ pc = "pinned"
    /\ EnterLoop("pinned", <<project.Version>>)
    /\ UNCHANGED <<project, src, dir, hashes, strip, wt, called, log, seen, raised, result>>
    /\ UNCHANGED otherVars

\* vendored.go:355-360
TagsBegin ==
    /\ pc = "tags"
    /\ \/ /\ CallsRaising({"VersionTags"}, ErrTags)
          /\ Return(ReturnErr(ErrTags), wt)
          /\ UNCHANGED <<phase, refs, idx, loop, hist>>
       \/ \E tags \in SubLists(TagOrder, MaxTags) :
             /\ Calls({"VersionTags"})
             /\ EnterLoop("tags", tags)
             /\ UNCHANGED <<result, wt>>
    /\ UNCHANGED <<project, src, dir, hashes, strip, log, seen>>
    /\ UNCHANGED otherVars

\* vendored.go:385-390
RevsBegin ==
    /\ pc = "revs"
    /\ \/ /\ CallsRaising({"Revisions"}, ErrRevList)
          /\ Return(ReturnErr(ErrRevList), wt)
          /\ UNCHANGED <<phase, refs, idx, loop, hist>>
       \/ \E revs \in SubLists(RevOrder, MaxRevs) :
             /\ Calls({"Revisions"})
             /\ EnterLoop("revs", revs)
             /\ UNCHANGED <<result, wt>>
    /\ UNCHANGED <<project, src, dir, hashes, strip, log, seen>>
    /\ UNCHANGED otherVars

\* a ref the pinned phase already asked about has the content it had then
FHChoices(ref) ==
    IF phase # "pinned" /\ ref = project.Version
    THEN {log.pinned.fo, [err |-> ErrLsTree, tree |-> EmptyHashes]}
    ELSE FHOutcomes

\* what the checkout of ref would answer; for the pinned version it is
\* recorded whenever strip is set and the local files are all among those of
\* the ref but differ from them, also when the closure returns before it
\* syncs
StripChoices(ref, fo) ==
    IF /\ fo.err = Nil /\ strip /\ phase = "pinned"
       /\ DOMAIN hashes \subseteq DOMAIN fo.tree /\ ~IsSubsetOf(hashes, fo.tree)
    THEN StripEnvs
    ELSE IF fo.err # Nil \/ ~ReachesStrip(strip, hashes, project.SubPath, fo.tree)
    THEN {NoStripEnv}
    ELSE IF phase # "pinned" /\ ref = project.Version THEN {log.pinned.env}
    ELSE StripEnvs

\* the WorkingTree calls of one iteration of the loop of matchFromRefs
IterCalls(fo, m) ==
    {"FileHashesFromRef"}
        \cup (IF fo.err = Nil /\ m.synced THEN {"RevSync"} ELSE {})
        \cup (IF fo.err = Nil /\ m.n > 0 THEN {"StripImportComment"} ELSE {})

\* as IterTrace, but the files are stripped before the checkout is moved
IterTraceStripFirst(ref, fo, m, env, before) ==
    <<[op |-> "FileHashesFromRef", at |-> ref]>>
        \o [k \in 1..(IF fo.err = Nil THEN m.n ELSE 0) |->
               [op |-> "StripImportComment", at |-> before]]
        \o (IF fo.err = Nil /\ m.synced THEN <<[op |-> "RevSync", at |-> ref]>> ELSE <<>>)

\* the WorkingTree calls of one iteration in the order they are made,
\* vendored.go:204, 121 and 127-129: the ref FileHashesFromRef and RevSync
\* are given, and the checkout StripImportComment reads its file from
\* (before: the checkout when the iteration begins)
IterTrace(ref, fo, m, env, before) ==
    <<[op |-> "FileHashesFromRef", at |-> ref]>>
        \o (IF fo.err = Nil /\ m.synced THEN <<[op |-> "RevSync", at |-> ref]>> ELSE <<>>)
        \o [k \in 1..(IF fo.err = Nil THEN m.n ELSE 0) |->
               [op |-> "StripImportComment",
                at |-> IF env.sync = Nil THEN ref ELSE before]]

\* the error one iteration ran into, other than an invalid ref
Fatal(fo, m) ==
    IF fo.err = ErrorInvalidRef THEN Nil
    ELSE IF fo.err # Nil THEN fo.err
    ELSE m.err

\* one iteration of the loop of matchFromRefs, vendored.go:203-222
MatchIter ==
    /\ pc = "loop"
    /\ idx <= Len(refs)
    /\ ~loop.stop
    /\ LET ref == refs[idx]
       IN  \E fo \in FHChoices(ref) :
           \E env \in StripChoices(ref, fo) :
           \E paths \in Orders(StripPaths(strip, hashes, project.SubPath)) :
              LET m  == matchFromRef(strip, hashes, project.SubPath, fo.tree, ref, paths, env)
                  c  == Candidate(fo, m)
                  st == LoopStep(loop, ref, c)
              IN  /\ loop' = st
                  /\ idx' = idx + 1
                  /\ hist' = Append(hist, [ref |-> ref, c |-> c,
                                          ops |-> IterTrace(ref, fo, m, env, wt.checkout)])
                  /\ wt' = IF fo.err = Nil /\ m.synced /\ env.sync = Nil
                           THEN [wt EXCEPT !.checkout = ref] ELSE wt
                  /\ CallsRaising(IterCalls(fo, m), Fatal(fo, m))
                  /\ log' = IF phase = "pinned"
                            THEN [log EXCEPT !.pinned = [fo |-> fo, env |-> env]]
                            ELSE log
    /\ UNCHANGED <<project, src, dir, pc, phase, hashes, strip, refs, seen, result>>
    /\ UNCHANGED otherVars

\* the loop of matchFromRefs is left
LoopLeft == pc = "loop" /\ (idx > Len(refs) \/ loop.stop)

\* vendored.go:340-345
PinnedReference(p, match, ver) ==
    [Pkg |-> p.Root, Repo |-> p.Repo, Tag |-> "", Rev |-> match, Ver |-> ver]

\* as TagReference, but the tag is not resolved to its revision
TagReferenceUnresolved(p, match, rev) ==
    [Pkg |-> p.Root, Repo |-> p.Repo, Tag |-> match, Rev |-> match, Ver |-> rev]

\* vendored.go:370-376
TagReference(p, match, rev) ==
    [Pkg |-> p.Root, Repo |-> p.Repo, Tag |-> match, Rev |-> rev, Ver |-> match]

\* vendored.go:402-407
RevReference(p, rev, ver) ==
    [Pkg |-> p.Root, Repo |-> p.Repo, Tag |-> "", Rev |-> rev, Ver |-> ver]

\* PseudoVersion(wt, match) returned pv after the answers reach and tm
PseudoVersionReturned(match, ph, reach, tm, pv) ==
    /\ log' = [log EXCEPT !.pvArg = match, !.reach = reach, !.tm = tm, !.pv = pv]
    /\ CallsRaising(PseudoVersionCalls(project.VCS, reach),
                    IF pv.kind = "err" THEN pv.err ELSE Nil)
    /\ Return(IF pv.kind = "err" THEN ReturnErr(pv.err)
              ELSE IF pv.kind = "panic" THEN ReturnPanic
              ELSE IF ph = "pinned"
              THEN ReturnRef(PinnedReference(project, match, pv.ver))
              ELSE ReturnRef(RevReference(project, match, pv.ver)), wt)

\* ver, err := PseudoVersion(wt, match) and the return that follows it,
\* vendored.go:335-345 (ph = "pinned") and 397-407 (ph = "revs")
FinishWithPseudoVersion(match, ph) ==
    \E reach \in ReachOutcomes :
    \E tm \in (IF CallsTime(reach) THEN TimeOutcomes ELSE {NoTime}) :
       PseudoVersionReturned(match, ph, reach, tm, PseudoVersion(project.VCS, reach, tm, match))

\* as Recoverable, but no error lets the next phase run
RecoverableNever(err) == FALSE

\* case ErrorVersionNotFound: of the switches at vendored.go:346 and 377
Recoverable(err) == err = ErrorVersionNotFound

\* vendored.go:330-351
PinnedEnd ==
    /\ LoopLeft
    /\ phase = "pinned"
    /\ LET r == matchFromRefsReturn(loop)
       IN  IF r.err = Nil
           THEN /\ FinishWithPseudoVersion(r.matches[1], "pinned")
                /\ seen' = [seen EXCEPT !.pinned = "matched"]
           ELSE IF Recoverable(r.err)
           THEN /\ pc' = "tags"
                /\ seen' = [seen EXCEPT !.pinned = "nomatch"]
                /\ UNCHANGED <<wt, called, log, raised, result>>
           ELSE /\ Return(ReturnErr(r.err), wt)
                /\ seen' = [seen EXCEPT !.pinned = "aborted"]
                /\ UNCHANGED <<called, log, raised>>
    /\ UNCHANGED <<project, src, dir, phase, hashes, strip, refs, idx, loop, hist>>
    /\ UNCHANGED otherVars

\* as TagsEnd, but a match does not return and the revisions are tried too
TagsEndFallsThrough ==
    /\ LoopLeft
    /\ phase = "tags"
    /\ LET r == matchFromRefsReturn(loop)
       IN  IF r.err = Nil \/ Recoverable(r.err)
           THEN /\ pc' = "revs"
                /\ seen' = [seen EXCEPT !.tags = IF r.err = Nil THEN "matched" ELSE "nomatch"]
                /\ UNCHANGED <<wt, called, log, raised, result>>
           ELSE /\ Return(ReturnErr(r.err), wt)
                /\ seen' = [seen EXCEPT !.tags = "aborted"]
                /\ UNCHANGED <<called, log, raised>>
    /\ UNCHANGED <<project, src, dir, phase, hashes, strip, refs, idx, loop, hist>>
    /\ UNCHANGED otherVars

\* vendored.go:361-382
TagsEnd ==
    /\ LoopLeft
    /\ phase = "tags"
    /\ LET r == matchFromRefsReturn(loop)
       IN  IF r.err = Nil
           THEN LET match == chooseBestTag(r.matches)
                IN  /\ \E o \in {[ret |-> RevA, err |-> Nil], [ret |-> RevB, err |-> Nil],
                                [ret |-> "", err |-> ErrRevParse]} :
                          /\ log' = [log EXCEPT !.rft = [arg |-> match, ret |-> o.ret, err |-> o.err]]
                          /\ CallsRaising({"RevisionFromTag"}, o.err)
                          /\ Return(IF o.err # Nil THEN ReturnErr(o.err)
                                    ELSE ReturnRef(TagReference(project, match, o.ret)), wt)
                    /\ seen' = [seen EXCEPT !.tags = "matched"]
           ELSE IF Recoverable(r.err)
           THEN /\ pc' = "revs"
                /\ seen' = [seen EXCEPT !.tags = "nomatch"]
                /\ UNCHANGED <<wt, called, log, raised, result>>
           ELSE /\ Return(ReturnErr(r.err), wt)
                /\ seen' = [seen EXCEPT !.tags = "aborted"]
                /\ UNCHANGED <<called, log, raised>>
    /\ UNCHANGED <<project, src, dir, phase, hashes, strip, refs, idx, loop, hist>>
    /\ UNCHANGED otherVars

\* as NewestMatch, but the last element of the run
OldestMatch(matches) == matches[Len(matches)]

\* rev := matches[0], vendored.go:396
NewestMatch(matches) == matches[1]

\* vendored.go:390-407
RevsEnd ==
    /\ LoopLeft
    /\ phase = "revs"
    /\ LET r == matchFromRefsReturn(loop)
       IN  IF r.err # Nil
           THEN /\ Return(ReturnErr(r.err), wt)
                /\ seen' = [seen EXCEPT !.revs = IF r.err = ErrorVersionNotFound
                                                 THEN "nomatch" ELSE "aborted"]
                /\ UNCHANGED <<called, log, raised>>
           ELSE /\ FinishWithPseudoVersion(NewestMatch(r.matches), "revs")
                /\ seen' = [seen EXCEPT !.revs = "matched"]
    /\ UNCHANGED <<project, src, dir, phase, hashes, strip, refs, idx, loop, hist>>
    /\ UNCHANGED otherVars

DescribeProject ==
    \/ NewWorkingTreeStep
    \/ HashLocalStep
    \/ PinnedBegin
    \/ TagsBegin
    \/ RevsBegin
    \/ MatchIter
    \/ PinnedEnd
    \/ TagsEnd
    \/ RevsEnd

\* no function call is pending
NoCallIn == [fn |-> "none"]

NoCallOut == [done |-> FALSE]

Init ==
    /\ DPInit
    /\ cbtIn = <<>>
    /\ cbtOut = ""
    /\ fnIn = NoCallIn
    /\ fnOut = NoCallOut

Next == DescribeProject

Spec == Init /\ [][Next]_vars

(***************************************************************************)
(* chooseBestTag on its own: every list of at most MaxList tags.           *)
(***************************************************************************)
CbtTags == {"1.2.3-beta1", "1.2.2", "1.2.2-beta2", "v1.0.0", "v1.2.0beta1", "master"}

RECURSIVE ListsUpTo(_, _)
ListsUpTo(S, n) ==
    IF n = 0 THEN {<<>>}
    ELSE LET shorter == ListsUpTo(S, n - 1)
         IN  shorter \cup {Append(l, x) : l \in shorter, x \in S}

CbtInit ==
    /\ project = [Root |-> "github.com/foo/bar", Repo |-> "https://github.com/foo/bar",
                  VCS |-> vcsGit, SubPath |-> "", Version |-> ""]
    /\ src = [Path |-> "/src", usesGodep |-> FALSE]
    /\ dir = "/src"
    /\ pc = "idle"
    /\ phase = "none"
    /\ hashes = EmptyHashes
    /\ strip = FALSE
    /\ refs = <<>>
    /\ idx = 1
    /\ loop = EmptyLoop
    /\ hist = <<>>
    /\ wt = [state |-> "none", checkout |-> "", closes |-> 0, dir |-> "none"]
    /\ called = {}
    /\ log = [pinned |-> [fo |-> [err |-> ErrLsTree, tree |-> EmptyHashes], env |-> NoStripEnv],
              rft |-> NoCall, pvArg |-> "", reach |-> NoReach, tm |-> NoTime,
              pv |-> [kind |-> "none"]]
    /\ seen = NoSeen
    /\ raised = [err |-> Nil, late |-> FALSE]
    /\ result = [kind |-> "none", ref |-> NoReference, err |-> Nil]
    /\ cbtIn \in ListsUpTo(CbtTags, MaxList) \ {<<>>}
    /\ cbtOut = ""
    /\ fnIn = NoCallIn
    /\ fnOut = NoCallOut

ChooseBestTagCall ==
    /\ cbtOut = ""
    /\ cbtOut' = chooseBestTag(cbtIn)
    /\ UNCHANGED cbtIn
    /\ UNCHANGED dpVars
    /\ UNCHANGED fnVars

CbtNext == ChooseBestTagCall

SpecCBT == CbtInit /\ [][CbtNext]_vars

\* DescribeProject is not running
DPIdle ==
    /\ project = [Root |-> "github.com/foo/bar", Repo |-> "https://github.com/foo/bar",
                  VCS |-> vcsGit, SubPath |-> "", Version |-> ""]
    /\ src = [Path |-> "/src", usesGodep |-> FALSE]
    /\ dir = "/src"
    /\ pc = "idle"
    /\ phase = "none"
    /\ hashes = EmptyHashes
    /\ strip = FALSE
    /\ refs = <<>>
    /\ idx = 1
    /\ loop = EmptyLoop
    /\ hist = <<>>
    /\ wt = [state |-> "none", checkout |-> "", closes |-> 0, dir |-> "none"]
    /\ called = {}
    /\ log = [pinned |-> [fo |-> [err |-> ErrLsTree, tree |-> EmptyHashes], env |-> NoStripEnv],
              rft |-> NoCall, pvArg |-> "", reach |-> NoReach, tm |-> NoTime,
              pv |-> [kind |-> "none"]]
    /\ seen = NoSeen
    /\ raised = [err |-> Nil, late |-> FALSE]
    /\ result = [kind |-> "none", ref |-> NoReference, err |-> Nil]
    /\ cbtIn = <<>>
    /\ cbtOut = ""

(***************************************************************************)
(* FileHashes.Mismatches and FileHashes.IsSubsetOf on their own: every     *)
(* pair of tables over at most MaxFiles paths, every order of the range.   *)
(***************************************************************************)
FhPaths == <<"a.go", "b.txt", "c.go", "d.md">>

FhPathSet == {FhPaths[i] : i \in 1..Min({MaxFiles, Len(FhPaths)})}

FhTables == UNION {[D -> {"h1", "h2"}] : D \in SUBSET FhPathSet}

FhInit ==
    /\ DPIdle
    /\ \E a \in FhTables, b \in FhTables, f \in BOOLEAN :
       \E o \in Orders(DOMAIN a) :
          fnIn = [fn |-> "Mismatches", h |-> a, s |-> b, failFast |-> f, order |-> o]
    /\ fnOut = NoCallOut

MismatchesCall ==
    /\ fnIn.fn = "Mismatches"
    /\ ~fnOut.done
    /\ fnOut' = [done |-> TRUE,
                 mismatches |-> MismatchesSlice(fnIn.h, fnIn.s, fnIn.failFast, fnIn.order),
                 subset |-> IsSubsetOfRange(fnIn.h, fnIn.s, fnIn.order)]
    /\ UNCHANGED <<fnIn, cbtIn, cbtOut>>
    /\ UNCHANGED dpVars

FhNext == MismatchesCall

SpecFH == FhInit /\ [][FhNext]_vars

(***************************************************************************)
(* NewFileHashes on its own, called directly or from DescribeProject       *)
(* (vendored.go:284-291 and 306), over small file system trees.            *)
(***************************************************************************)
\* the directory NewFileHashes is given as root
FsRoot == "proj"

\* filepath.Rel(root, path) for a path beneath root
Rel(root, path) == SubSeq(path, Len(root) + 2, Len(path))

\* lines a .gitattributes may hold, as strings.Fields splits them
GaLineChoices ==
    {<<"a.go", "export-subst">>, <<"sub", "text", "export-subst">>,
     <<"link">>, <<"sub/b.go", "ident">>}

\* the .gitattributes of the root directory
GaChoices ==
    {[state |-> "absent", lines |-> {}], [state |-> "unreadable", lines |-> {}]}
        \cup {[state |-> "present", lines |-> L] : L \in SUBSET GaLineChoices}

\* the trees: a.go and the symbolic link are there or not, the directories
\* sub and vendor are absent, empty or hold one file; sub can also hold a
\* .gitattributes of its own that marks its file export-subst
FsTrees ==
    [a : BOOLEAN, link : BOOLEAN, sub : {"absent", "empty", "full", "marked"},
     vendor : {"absent", "empty", "full"}, ga : GaChoices]

\* the entries of fs in the order filepath.Walk visits them: a directory
\* before its content, the names of a directory in lexical order
FsEntries(fs) ==
    <<[path |-> FsRoot, kind |-> "dir"]>>
      \o (IF fs.ga.state = "present"
          THEN <<[path |-> JoinPath(FsRoot, ".gitattributes"), kind |-> "file"]>> ELSE <<>>)
      \o (IF fs.a THEN <<[path |-> JoinPath(FsRoot, "a.go"), kind |-> "file"]>> ELSE <<>>)
      \o (IF fs.link THEN <<[path |-> JoinPath(FsRoot, "link"), kind |-> "symlink"]>> ELSE <<>>)
      \o (IF fs.sub # "absent" THEN <<[path |-> JoinPath(FsRoot, "sub"), kind |-> "dir"]>> ELSE <<>>)
      \o (IF fs.sub = "marked"
          THEN <<[path |-> JoinPath(FsRoot, "sub/.gitattributes"), kind |-> "file"]>>
          ELSE <<>>)
      \o (IF fs.sub \in {"full", "marked"}
          THEN <<[path |-> JoinPath(FsRoot, "sub/b.go"), kind |-> "file"]>> ELSE <<>>)
      \o (IF fs.vendor # "absent"
          THEN <<[path |-> JoinPath(FsRoot, "vendor"), kind |-> "dir"]>> ELSE <<>>)
      \o (IF fs.vendor = "full"
          THEN <<[path |-> JoinPath(FsRoot, "vendor/c.go"), kind |-> "file"]>> ELSE <<>>)

\* the hash the Hasher computes for the file at path
HashOf(path) == "hash of " \o path

\* as ExportSubst, but no line marks anything
ExportSubstIgnored(dirPath, lines) == {}

\* part_003:120-133: the names a .gitattributes marks export-subst, joined
\* to the directory it lies in
ExportSubst(dirPath, lines) ==
    {JoinPath(dirPath, l[1]) : l \in {m \in lines : /\ Len(m) >= 2
                                                    /\ \E k \in 2..Len(m) : m[k] = "export-subst"}}

\* the .gitattributes os.Open finds in the directory dirPath
GaOf(fs, dirPath) ==
    IF dirPath = FsRoot THEN fs.ga
    ELSE IF dirPath = JoinPath(FsRoot, "sub") /\ fs.sub = "marked"
    THEN [state |-> "present", lines |-> {<<"b.go", "export-subst">>}]
    ELSE [state |-> "absent", lines |-> {}]

\* path lies beneath a directory filepath.Walk was told to skip
Pruned(st, path) == \E d \in st.pruned : HasPrefix(path, d \o "/")

\* as WalkFn, but an excluded directory is not pruned, only left out itself
WalkFnNoSkipDir(st, e, fs) ==
    IF e.path \in st.excl THEN st
    ELSE IF e.kind = "dir"
    THEN IF GaOf(fs, e.path).state = "unreadable" THEN [st EXCEPT !.err = ErrOpen]
         ELSE [st EXCEPT !.excl = @ \cup ExportSubst(e.path, GaOf(fs, e.path).lines)]
    ELSE IF e.kind # "file" THEN st
    ELSE [st EXCEPT !.hashes = SetHash(@, Rel(FsRoot, e.path), HashOf(e.path))]

\* walkfn, part_003:101-158, on the entry e
WalkFn(st, e, fs) ==
    IF e.path \in st.excl
    THEN IF e.kind = "dir" THEN [st EXCEPT !.pruned = @ \cup {e.path}] ELSE st
    ELSE IF e.kind = "dir"
    THEN IF GaOf(fs, e.path).state = "unreadable" THEN [st EXCEPT !.err = ErrOpen]
         ELSE [st EXCEPT !.excl = @ \cup ExportSubst(e.path, GaOf(fs, e.path).lines)]
    ELSE IF e.kind # "file" THEN st
    ELSE [st EXCEPT !.hashes = SetHash(@, Rel(FsRoot, e.path), HashOf(e.path))]

RECURSIVE Walk(_, _, _, _)
\* filepath.Walk(root, walkfn) from entry i on: an error ends the walk, the
\* content of a skipped directory is not visited
Walk(st, entries, i, fs) ==
    IF i > Len(entries) \/ st.err # Nil THEN st
    ELSE IF Pruned(st, entries[i].path) THEN Walk(st, entries, i + 1, fs)
    ELSE Walk(WalkFn(st, entries[i], fs), entries, i + 1, fs)

\* as WalkStart, but the walk works on the map of the caller
WalkStartShared(excludes) ==
    [excl |-> excludes, shared |-> TRUE, hashes |-> EmptyHashes, pruned |-> {}, err |-> Nil]

\* part_003:93-99: the walk starts on a copy of excludes
WalkStart(excludes) ==
    [excl |-> excludes, shared |-> FALSE, hashes |-> EmptyHashes, pruned |-> {}, err |-> Nil]

\* what NewFileHashes returns, and the map of the caller after the call
NewFileHashesReturn(st, excludes) ==
    [hashes |-> IF st.err # Nil THEN EmptyHashes ELSE st.hashes,
     err |-> st.err,
     excl |-> st.excl,
     excludes |-> IF st.shared THEN st.excl ELSE excludes]

\* NewFileHashes(h, root, excludes), part_003:86-164
NewFileHashes(fs, excludes) ==
    NewFileHashesReturn(Walk(WalkStart(excludes), FsEntries(fs), 1, fs), excludes)

\* vendored.go:284-291: the map DescribeProject hands to NewFileHashes, and
\* src.excludes afterwards
DescribeExcludes(srcExcludes, d) ==
    [passed |-> srcExcludes \cup {JoinPath(d, "vendor")}, src |-> srcExcludes]

\* paths a caller can have on its exclusion list
ExcludeChoices ==
    {JoinPath(FsRoot, "a.go"), JoinPath(FsRoot, "sub"), JoinPath(FsRoot, "vendor"), "a.go"}

\* how often the same exclusion map is used
MaxCalls == 2

NfhInit ==
    /\ DPIdle
    /\ fnIn \in [fn : {"NewFileHashes"}, fs : FsTrees, excludes : SUBSET ExcludeChoices,
                  viaDescribe : BOOLEAN]
    /\ fnOut = [done |-> FALSE, calls |-> 0, excludes |-> fnIn.excludes]

\* the result of a call, r being what NewFileHashes returned when given the
\* map passed
NfhResult(passed, srcAfter, r) ==
    [done |-> TRUE, calls |-> fnOut.calls + 1, passed |-> passed,
     hashes |-> r.hashes, err |-> r.err, excl |-> r.excl,
     excludes |-> IF fnIn.viaDescribe THEN srcAfter ELSE r.excludes]

\* NewFileHashes called directly with the map of the caller
NewFileHashesCall ==
    /\ fnIn.fn = "NewFileHashes"
    /\ ~fnIn.viaDescribe
    /\ fnOut.calls < MaxCalls
    /\ fnOut' = NfhResult(fnOut.excludes, fnOut.excludes,
                          NewFileHashes(fnIn.fs, fnOut.excludes))
    /\ UNCHANGED <<fnIn, cbtIn, cbtOut>>
    /\ UNCHANGED dpVars

\* the local hashing of DescribeProject(project, FsRoot), vendored.go:284-306
DescribeHashLocalCall ==
    /\ fnIn.fn = "NewFileHashes"
    /\ fnIn.viaDescribe
    /\ fnOut.calls < MaxCalls
    /\ fnOut' = NfhResult(DescribeExcludes(fnOut.excludes, FsRoot).passed,
                          DescribeExcludes(fnOut.excludes, FsRoot).src,
                          NewFileHashes(fnIn.fs, DescribeExcludes(fnOut.excludes, FsRoot).passed))
    /\ UNCHANGED <<fnIn, cbtIn, cbtOut>>
    /\ UNCHANGED dpVars

NfhNext == NewFileHashesCall \/ DescribeHashLocalCall

SpecNFH == NfhInit /\ [][NfhNext]_vars

(***************************************************************************)
(* PseudoVersion on its own: each VCS, each answer of ReachableTag and of  *)
(* TimeFromRevision, full and abbreviated revisions.                       *)
(***************************************************************************)
PvInit ==
    /\ DPIdle
    /\ \E v \in {vcsGit, vcsHg}, tm \in TimeOutcomes, rev \in {RevA, RevB, "d4c3dbf"} :
       \E reach \in ReachOutcomes \cup {[err |-> Nil, tag |-> t] : t \in {"1.9.9", "v1.2"}} :
          fnIn = [fn |-> "PseudoVersion", vcs |-> v, reach |-> reach, tm |-> tm, rev |-> rev]
    /\ fnOut = NoCallOut

PseudoVersionCall ==
    /\ fnIn.fn = "PseudoVersion"
    /\ ~fnOut.done
    /\ fnOut' = [done  |-> TRUE,
                 ret   |-> PseudoVersion(fnIn.vcs, fnIn.reach, fnIn.tm, fnIn.rev),
                 calls |-> PseudoVersionCalls(fnIn.vcs, fnIn.reach)]
    /\ UNCHANGED <<fnIn, cbtIn, cbtOut>>
    /\ UNCHANGED dpVars

PvNext == PseudoVersionCall

SpecPV == PvInit /\ [][PvNext]_vars

(***************************************************************************)
(* The queries of a working tree on their own.  ReachableTag: what it      *)
(* makes of the answers of git describe.                                   *)
(***************************************************************************)
RECURSIVE TrimSpace(_)
\* strings.TrimSpace, for spaces and newlines
TrimSpace(s) ==
    IF Len(s) = 0 THEN s
    ELSE IF Char(s, 1) \in {" ", "\n"} THEN TrimSpace(SubSeq(s, 2, Len(s)))
    ELSE IF Char(s, Len(s)) \in {" ", "\n"} THEN TrimSpace(SubSeq(s, 1, Len(s) - 1))
    ELSE s

RECURSIVE ToLower(_)
\* strings.ToLower, for the letters A to Z
ToLower(s) ==
    IF Len(s) = 0 THEN s
    ELSE ToLower(SubSeq(s, 1, Len(s) - 1))
           \o (IF IndexOf("ABCDEFGHIJKLMNOPQRSTUVWXYZ", Char(s, Len(s))) = 0
               THEN Char(s, Len(s))
               ELSE Char("abcdefghijklmnopqrstuvwxyz",
                         IndexOf("ABCDEFGHIJKLMNOPQRSTUVWXYZ", Char(s, Len(s)))))

RECURSIVE Join(_, _)
\* strings.Join
Join(fields, sep) ==
    IF Len(fields) = 0 THEN ""
    ELSE IF Len(fields) = 1 THEN fields[1]
    ELSE fields[1] \o sep \o Join(Tail(fields), sep)

\* what git describe --tags --match=<glob> answers when the nearest tag that
\* fits the glob is one of tags, n commits back (the tag itself when n is 0,
\* else tag-n-g<abbreviated hash>), and when it fails: with no tag to
\* describe the revision by, or for another reason
DescribeRuns(tags) ==
    {[err |-> Nil, tag |-> t, n |-> n,
      out |-> IF n = 0 THEN t \o "\n" ELSE t \o "-" \o NatToStr(n) \o "-ga0220d4\n"] :
         t \in tags, n \in {0, 27}}
      \cup {[err |-> ErrDescribe, tag |-> "", n |-> 0, out |-> msg] :
               msg \in {"fatal: No annotated tags can describe 'd4c3dbfa77a7'.\n",
                        "fatal: No tags can describe 'd4c3dbfa77a7'.\n",
                        "fatal: No names found, cannot describe anything.\n",
                        "fatal: Not a valid object name d4c3dbfa77a7\n"}}

\* git.go:122-133: the tag of a describe output, fields being the output
\* split at its dashes
DescribedTag(tag, fields) ==
    IF Len(fields) < 3 THEN tag ELSE Join(SubSeq(fields, 1, Len(fields) - 2), "-")

\* git.go:97-120, the body of the loop over the globs for the glob whose
\* describe answered run, output being its trimmed output: every path
\* through the body leaves the loop
ReachableTagFirst(run, output) ==
    IF run.err = Nil
    THEN IF output = "" THEN [tag |-> "", err |-> ErrorVersionNotFound]
         ELSE [tag |-> DescribedTag(output, Split(output, "-")), err |-> Nil]
    ELSE IF \/ HasPrefix(ToLower(output), "fatal: no tag")
            \/ HasPrefix(ToLower(output), "fatal: no names")
            \/ HasPrefix(ToLower(output), "fatal: no annotated tag")
    THEN [tag |-> "", err |-> ErrorVersionNotFound]
    ELSE [tag |-> "", err |-> run.err]

\* gitWorkingTree.ReachableTag: runs[i] is what describe answers for the
\* i-th glob, v[0-9]* and [0-9]*; tried is the number of globs described
\* with
ReachableTag(runs) ==
    [ret |-> ReachableTagFirst(runs[1], TrimSpace(runs[1].out)), tried |-> 1]

(***************************************************************************)
(* WorkingTree.VersionTags: the order of semver.Collection (Masterminds    *)
(* semver, Version.Compare) and sort.Sort on it.                           *)
(***************************************************************************)
RECURSIVE StrLess(_, _)
\* s < o for Go strings of digits, letters, "-" and ".": byte by byte
StrLess(s, o) ==
    IF Len(o) = 0 THEN FALSE
    ELSE IF Len(s) = 0 THEN TRUE
    ELSE IF Char(s, 1) = Char(o, 1) THEN StrLess(SubSeq(s, 2, Len(s)), SubSeq(o, 2, Len(o)))
    ELSE IndexOf("-.0123456789ABCDEFGHIJKLMNOPQRSTUVWXYZabcdefghijklmnopqrstuvwxyz", Char(s, 1))
           < IndexOf("-.0123456789ABCDEFGHIJKLMNOPQRSTUVWXYZabcdefghijklmnopqrstuvwxyz", Char(o, 1))

RECURSIVE ComparePre(_, _, _)
\* semver comparePrerelease on the dot-separated parts sp and op from part i
\* on: -1, 0 or 1; a missing part is lower, numbers compare as numbers and
\* are lower than words, words compare as strings
ComparePre(sp, op, i) ==
    IF i > Len(sp) /\ i > Len(op) THEN 0
    ELSE IF i > Len(sp) THEN 0 - 1
    ELSE IF i > Len(op) THEN 1
    ELSE IF sp[i] = op[i] THEN ComparePre(sp, op, i + 1)
    ELSE IF IsNumeric(sp[i]) /\ IsNumeric(op[i])
    THEN (IF StrToNat(sp[i]) > StrToNat(op[i]) THEN 1 ELSE 0 - 1)
    ELSE IF IsNumeric(sp[i]) THEN 0 - 1
    ELSE IF IsNumeric(op[i]) THEN 1
    ELSE IF StrLess(op[i], sp[i]) THEN 1 ELSE 0 - 1

\* as SemverLess, but the version numbers are compared as strings
SemverLessAsText(v, o) ==
    StrLess(VersionString(v), VersionString(o))

\* semver.Collection.Less: Version.LessThan, metadata not looked at
SemverLess(v, o) ==
    IF v.major # o.major THEN v.major < o.major
    ELSE IF v.minor # o.minor THEN v.minor < o.minor
    ELSE IF v.patch # o.patch THEN v.patch < o.patch
    ELSE IF v.pre = "" \/ o.pre = "" THEN v.pre # "" /\ o.pre = ""
    ELSE ComparePre(Split(v.pre, "."), Split(o.pre, "."), 1) < 0

RECURSIVE InsertionSort(_, _, _)
\* sort.Sort(sort.Reverse(versions)) for the collections of fewer than 7
\* elements, which Go sorts by insertion alone: element i moves left past
\* position j while the element before it is less than it
InsertionSort(data, i, j) ==
    IF i > Len(data) THEN data
    ELSE IF j > 1 /\ SemverLess(data[j - 1].v, data[j].v)
    THEN InsertionSort([data EXCEPT ![j - 1] = data[j], ![j] = data[j - 1]], i, j - 1)
    ELSE InsertionSort(data, i + 1, i + 1)

\* the versions of the tags that parse, each with its tag (versionTags)
ParsedTags(tags) ==
    [k \in 1..Len(SelectSeq(tags, LAMBDA t : NewVersion(t).ok)) |->
        [v |-> NewVersion(SelectSeq(tags, LAMBDA t : NewVersion(t).ok)[k]),
         tag |-> SelectSeq(tags, LAMBDA t : NewVersion(t).ok)[k]]]

\* WorkingTree.VersionTags: listing is what wt.VCS.Tags returned
VersionTags(listing) ==
    IF listing.err # Nil THEN [tags |-> <<>>, err |-> listing.err]
    ELSE [tags |-> [k \in 1..Len(ParsedTags(listing.tags)) |->
                       InsertionSort(ParsedTags(listing.tags), 2, 2)[k].tag],
          err |-> Nil]

\* the tags of the repository
RepoTags == {"v1.2.0", "1.2", "v1.10.0", "v1.2.0-rc1", "v1.2.0-rc.2", "latest"}

VersionTagsCall ==
    /\ fnIn.fn = "VersionTags"
    /\ ~fnOut.done
    /\ fnOut' = [done |-> TRUE, ret |-> VersionTags(fnIn.listing)]
    /\ UNCHANGED <<fnIn, cbtIn, cbtOut>>
    /\ UNCHANGED dpVars

(***************************************************************************)
(* gitWorkingTree.FileHashesFromRef: what it makes of git ls-tree -r.      *)
(***************************************************************************)
\* the files a ref can hold, in the order git lists them
LsPaths == <<"main.go", "pkg/a.go", "pkg/b c.go", "pkg/sub/e.go", "pkg2/d.go">>

\* the lines git ls-tree -r ref [subPath] prints for the files of repo, a
\* function from paths to object names: <mode> SP <type> SP <object> TAB
\* <file>, the files under subPath only when one is given, each with its
\* path from the top of the repository
LsTree(repo, subPath) ==
    LET listed == SelectSeq(LsPaths,
                            LAMBDA p : p \in DOMAIN repo
                                         /\ (subPath = "" \/ HasPrefix(p, subPath \o "/")))
    IN  [k \in 1..Len(listed) |-> "100644 blob " \o repo[listed[k]] \o "\t" \o listed[k]]

\* strings.Fields, for fields separated by spaces
Fields(s) == SelectSeq(Split(s, " "), LAMBDA f : f # "")

\* as LsTreeKey, but the name is the last of the fields of the line
LsTreeKeyLastField(name, subPath) ==
    IF subPath = "" THEN Fields(name)[Len(Fields(name))]
    ELSE Rel(subPath, Fields(name)[Len(Fields(name))])

\* git.go:167-176: the key of the file called name in the listing
LsTreeKey(name, subPath) ==
    IF subPath = "" THEN name ELSE Rel(subPath, name)

RECURSIVE ScanLsTree(_, _, _, _)
\* git.go:159-183, the scanner loop from line i on; fh is the table so far
ScanLsTree(lines, subPath, i, fh) ==
    IF i > Len(lines) THEN [tree |-> fh, err |-> Nil]
    ELSE IF IndexOf(lines[i], "\t") = 0
    THEN [tree |-> EmptyHashes, err |-> Err("expected TAB")]
    ELSE IF Len(Fields(SubSeq(lines[i], 1, IndexOf(lines[i], "\t") - 1))) # 3
    THEN [tree |-> EmptyHashes, err |-> Err("expected 3 fields")]
    ELSE ScanLsTree(lines, subPath, i + 1,
                    SetHash(fh, LsTreeKey(SubSeq(lines[i], IndexOf(lines[i], "\t") + 1,
                                                 Len(lines[i])), subPath),
                            Fields(SubSeq(lines[i], 1, IndexOf(lines[i], "\t") - 1))[3]))

\* gitWorkingTree.FileHashesFromRef(ref, subPath): run is what git ls-tree
\* answered, its output line by line
FileHashesFromRef(run, subPath) ==
    IF run.err # Nil
    THEN IF \/ HasPrefix(ToLower(run.lines[1]), "fatal: not a valid object name ")
            \/ HasPrefix(ToLower(run.lines[1]), "fatal: not a tree object")
         THEN [tree |-> EmptyHashes, err |-> ErrorInvalidRef]
         ELSE [tree |-> EmptyHashes, err |-> run.err]
    ELSE ScanLsTree(run.lines, subPath, 1, EmptyHashes)

FileHashesFromRefCall ==
    /\ fnIn.fn = "FileHashesFromRef"
    /\ ~fnOut.done
    /\ fnOut' = [done |-> TRUE, ret |-> FileHashesFromRef(fnIn.run, fnIn.subPath)]
    /\ UNCHANGED <<fnIn, cbtIn, cbtOut>>
    /\ UNCHANGED dpVars

WtInit ==
    /\ DPIdle
    /\ \/ \E r1 \in DescribeRuns({"v1.2.0", "v1.2.0-pre1", "v1.0.0-rc-1"}),
             r2 \in DescribeRuns({"1.5.0", "1.5.0-rc1"}) :
             fnIn = [fn |-> "ReachableTag", runs |-> <<r1, r2>>]
       \/ \E l \in ListsUpTo(RepoTags, MaxList), e \in {Nil, ErrTags} :
             /\ \A i, j \in 1..Len(l) : l[i] = l[j] => i = j
             /\ fnIn = [fn |-> "VersionTags", listing |-> [tags |-> l, err |-> e]]
       \/ \E D \in SUBSET {LsPaths[k] : k \in 1..Len(LsPaths)}, subPath \in {"", "pkg"} :
          \E repo \in [D -> {"e69de29bb2d1", "0123abcd4567"}] :
             fnIn = [fn |-> "FileHashesFromRef", subPath |-> subPath, repo |-> repo,
                     run |-> [err |-> Nil, lines |-> LsTree(repo, subPath)]]
       \/ \E subPath \in {"", "pkg"},
             out \in {"fatal: Not a valid object name master", "fatal: not a tree object",
                      "fatal: unable to read tree"} :
             fnIn = [fn |-> "FileHashesFromRef", subPath |-> subPath, repo |-> EmptyHashes,
                     run |-> [err |-> ErrLsTree, lines |-> <<out>>]]
       \/ \E subPath \in {"", "pkg"} :
             fnIn = [fn |-> "FileHashesFromRef", subPath |-> subPath, repo |-> EmptyHashes,
                     run |-> [err |-> Nil, lines |-> <<"what?">>]]
    /\ fnOut = NoCallOut

ReachableTagCall ==
    /\ fnIn.fn = "ReachableTag"
    /\ ~fnOut.done
    /\ fnOut' = [done |-> TRUE, ret |-> ReachableTag(fnIn.runs).ret,
                 tried |-> ReachableTag(fnIn.runs).tried]
    /\ UNCHANGED <<fnIn, cbtIn, cbtOut>>
    /\ UNCHANGED dpVars

WtNext == ReachableTagCall \/ VersionTagsCall \/ FileHashesFromRefCall

SpecWT == WtInit /\ [][WtNext]_vars

(***************************************************************************)
(* VendoredProjects: the walk of vendor/ and its short-circuit.            *)
(***************************************************************************)
\* path.Dir of a slash-separated path without trailing slash
PathDir(p) ==
    LET c == Split(p, "/")
    IN  IF Len(c) = 1 THEN "." ELSE Join(SubSeq(c, 1, Len(c) - 1), "/")

\* vcs.RepoRootForImportPath, an external resolver: the root of the import
\* paths it knows, "" for the ones it reports an error for
VcsRepoRoot(importPath) ==
    LET c == Split(importPath, "/")
    IN  IF Len(c) >= 3 /\ c[1] = "github.com" THEN Join(SubSeq(c, 1, 3), "/")
        ELSE IF Len(c) >= 3 /\ c[1] = "gopkg.in" /\ IndexOf(importPath, "_") = 0
             THEN Join(SubSeq(c, 1, 3), "/")
        ELSE ""

RepoPathOf(root) == [Root |-> root, Repo |-> "https://" \o root]

RECURSIVE Replacement(_, _)
\* the replacement found for pth or for the nearest directory above it
Replacement(repoPaths, pth) ==
    IF pth \in DOMAIN repoPaths THEN <<repoPaths[pth]>>
    ELSE IF Len(PathDir(pth)) = 1 THEN <<>>
    ELSE Replacement(repoPaths, PathDir(pth))

RepoPathForImportPath(repoPaths, importPath) ==
    LET repl == Replacement(repoPaths, importPath)
        r    == VcsRepoRoot(importPath)
        u    == IndexOf(importPath, "_")
        cut  == PathDir(SubSeq(importPath, 1, u - 1) \o "x")
    IN  IF repl # <<>> THEN [kind |-> "ok", rp |-> repl[1]]
        ELSE IF r # "" THEN [kind |-> "ok", rp |-> RepoPathOf(r)]
        ELSE IF u # 0 /\ VcsRepoRoot(cut) # ""
             THEN [kind |-> "ok", rp |-> RepoPathOf(VcsRepoRoot(cut))]
        ELSE [kind |-> "panic", rp |-> RepoPathOf("")]

pathStartsWithAnyPrefix(d, prefix) == HasPrefix(d, prefix)

pathStartsWith(d, prefix) ==
    /\ HasPrefix(d, prefix)
    /\ (Len(d) = Len(prefix) \/ Char(d, Len(prefix) + 1) = "/")

inLastDir(lastdir, pth) == lastdir # "" /\ pathStartsWith(pth, lastdir)

VendorDir == JoinPath(FsRoot, "vendor")

\* the regular files a vendor directory may hold, in the order filepath.Walk
\* meets them (names sorted within each directory, a directory before its
\* contents)
VendorFiles ==
    << "github.com/eggs/ham/ham.go",
       "github.com/foo/bar/README.md",
       "github.com/foo/bar/bar.go",
       "github.com/foo/bar/pkg/p.go",
       "github.com/foo/bar-baz/z.go",
       "gopkg.in/foo/bar.v2/_examples/chat1/main.go",
       "top.go" >>

RECURSIVE DirsAbove(_)
\* the directories above a relative path, outermost first
DirsAbove(rel) ==
    IF PathDir(rel) = "." THEN <<>> ELSE DirsAbove(PathDir(rel)) \o <<PathDir(rel)>>

RECURSIVE WalkOrder(_, _, _)
\* filepath.Walk over vendor/ holding the files of present: every directory is
\* visited once, right before the first entry below it
WalkOrder(present, i, met) ==
    IF i > Len(VendorFiles) THEN <<>>
    ELSE IF VendorFiles[i] \notin present THEN WalkOrder(present, i + 1, met)
    ELSE LET dirs == SelectSeq(DirsAbove(VendorFiles[i]), LAMBDA d : d \notin met)
             ents == [k \in 1..Len(dirs) |->
                         [path |-> JoinPath(VendorDir, dirs[k]), regular |-> FALSE]]
         IN  ents \o <<[path |-> JoinPath(VendorDir, VendorFiles[i]), regular |-> TRUE]>>
                  \o WalkOrder(present, i + 1, met \cup {dirs[k] : k \in 1..Len(dirs)})

\* processVendoredSource on a search state st
processVendoredSource(repoPaths, st, pth) ==
    LET thisImport == PathDir(Rel(VendorDir, pth))
        res        == RepoPathForImportPath(repoPaths, thisImport)
        call       == [pth |-> pth, import |-> thisImport, lastdir |-> st.lastdir,
                       kind |-> res.kind, root |-> res.rp.Root]
    IN  IF res.kind # "ok"
        THEN [st EXCEPT !.calls = Append(@, call), !.kind = res.kind]
        ELSE [st EXCEPT !.calls = Append(@, call),
                        !.vendored = [r \in DOMAIN @ \cup {res.rp.Root} |->
                                         IF r = res.rp.Root THEN res.rp ELSE @[r]],
                        !.lastdir = JoinPath(VendorDir, res.rp.Root)]

\* the walk function of VendoredProjects on one entry
walkfn(repoPaths, st, e) ==
    IF inLastDir(st.lastdir, e.path) THEN st
    ELSE IF ~e.regular \/ ~HasSuffix(e.path, ".go") THEN st
    ELSE processVendoredSource(repoPaths, st, e.path)

RECURSIVE WalkVendor(_, _, _, _)
\* filepath.Walk stops at the first entry whose walk function fails
WalkVendor(repoPaths, st, ents, i) ==
    IF i > Len(ents) \/ st.kind # "ok" THEN st
    ELSE WalkVendor(repoPaths, walkfn(repoPaths, st, ents[i]), ents, i + 1)

NewSearch == [lastdir |-> "", vendored |-> <<>>, calls |-> <<>>, kind |-> "ok"]

\* stat is the outcome of os.Stat on the vendor directory
VendoredProjects(repoPaths, stat, present) ==
    IF stat = "denied" THEN [NewSearch EXCEPT !.kind = "err"]
    ELSE IF stat = "absent" THEN NewSearch
    ELSE WalkVendor(repoPaths, NewSearch,
                    <<[path |-> VendorDir, regular |-> FALSE]>>
                        \o WalkOrder(present, 1, {}), 1)

\* the replacement tables a configuration file may give
RepoPathTables ==
    { <<>>,
      [p \in {"github.com/foo/bar/pkg"} |-> [Root |-> p, Repo |-> "https://example.org/pkg"]] }

VpInit ==
    /\ DPIdle
    /\ \E present \in SUBSET {VendorFiles[k] : k \in 1..Len(VendorFiles)},
          stat \in {"ok", "absent", "denied"}, repoPaths \in RepoPathTables :
          /\ stat # "ok" => present = {}
          /\ fnIn = [fn |-> "VendoredProjects", present |-> present, stat |-> stat,
                     repoPaths |-> repoPaths]
    /\ fnOut = NoCallOut

VendoredProjectsCall ==
    /\ fnIn.fn = "VendoredProjects"
    /\ ~fnOut.done
    /\ fnOut' = [done |-> TRUE,
                 ret |-> VendoredProjects(fnIn.repoPaths, fnIn.stat, fnIn.present)]
    /\ UNCHANGED <<fnIn, cbtIn, cbtOut>>
    /\ UNCHANGED dpVars

VpNext == VendoredProjectsCall

SpecVP == VpInit /\ [][VpNext]_vars

(***************************************************************************)
(* The command-line program: main, showTopLevel, showVendored.  A process  *)
(* counts the working trees newWorkingTree returned (created), the ones    *)
(* closed, and the deferred Close calls of the running function (pending)  *)
(* and of main (mainPending).  os.Exit and log.Fatal end the process       *)
(* without running deferred calls; a panic runs them.                      *)
(***************************************************************************)
\* how many vendored projects a source tree holds
MaxProjects == 2

NewProcess ==
    [pc |-> "start", status |-> "running", code |-> 0, created |-> 0, closed |-> 0,
     pending |-> 0, mainPending |-> 0, errorShown |-> FALSE, topNil |-> FALSE,
     changes |-> FALSE]

\* os.Exit(code), also the end of log.Fatal and log.Fatalf
Exit(st, code) == [st EXCEPT !.status = "exited", !.code = code]

\* the return of a function: its deferred wt.Close() calls run
DeferredReturn(st) == [st EXCEPT !.closed = @ + st.pending, !.pending = 0]

\* a run-time panic: the deferred calls run, then the process ends
Panic(st) == [DeferredReturn(st) EXCEPT !.status = "panicked", !.code = 2]

\* a working tree returned by newWorkingTree, followed by defer wt.Close()
Created(st) == [st EXCEPT !.created = @ + 1, !.pending = @ + 1]

displayUnknown(st, exitFirst) ==
    IF st.errorShown THEN st
    ELSE IF exitFirst THEN Exit([st EXCEPT !.errorShown = TRUE], 2)
    ELSE [st EXCEPT !.errorShown = TRUE]

\* what happens to the top-level project: getProject fails, the project
\* carries an error, newWorkingTree fails twice, or DescribeProject returns
TopOutcomes ==
    {"needImportPath", "projectFatal", "projectErr", "treeFailed",
     "described", "notFound", "fatal"}

ProjectOutcomes == {"projectErr", "treeFailed", "described", "notFound", "fatal"}

showTopLevel(inp, st) ==
    IF inp.top = "needImportPath" THEN Exit(st, 3)
    ELSE IF inp.top = "projectFatal" THEN Exit(st, 1)
    ELSE IF inp.top = "projectErr"
         THEN [displayUnknown(st, inp.exitFirst) EXCEPT !.topNil = TRUE]
    ELSE IF inp.top = "treeFailed" THEN displayUnknown(st, inp.exitFirst)
    ELSE IF inp.top = "notFound"
         THEN IF displayUnknown(Created(st), inp.exitFirst).status = "running"
              THEN DeferredReturn(displayUnknown(Created(st), inp.exitFirst))
              ELSE displayUnknown(Created(st), inp.exitFirst)
    ELSE IF inp.top = "fatal" THEN Exit(Created(st), 1)
    ELSE DeferredReturn(Created(st))

RECURSIVE VendoredLoop(_, _, _, _)
\* the loop of showVendored from project i on, and its return
VendoredLoop(projects, exitFirst, st, i) ==
    IF st.status # "running" THEN st
    ELSE IF i > Len(projects) THEN DeferredReturn(st)
    ELSE IF projects[i] \in {"projectErr", "treeFailed"}
         THEN IF st.topNil THEN Panic(st)
              ELSE VendoredLoop(projects, exitFirst, displayUnknown(st, exitFirst), i + 1)
    ELSE IF projects[i] = "notFound"
         THEN VendoredLoop(projects, exitFirst, displayUnknown(Created(st), exitFirst), i + 1)
    ELSE IF projects[i] = "fatal" THEN Exit(Created(st), 1)
    ELSE VendoredLoop(projects, exitFirst, Created(st), i + 1)

showVendored(inp, st) ==
    IF inp.vendoredErr THEN Exit(st, 1)
    ELSE VendoredLoop(inp.vendored, inp.exitFirst, st, 1)

\* the -diff branch of main
DiffOutcomes == {"needImportPath", "treeFailed", "fatal", "changes", "same"}

diffBranch(inp, st) ==
    IF inp.diff = "needImportPath" THEN Exit(st, 3)
    ELSE IF inp.diff = "treeFailed" THEN Exit(st, 1)
    ELSE IF inp.diff = "fatal"
         THEN Exit([st EXCEPT !.created = @ + 1, !.mainPending = @ + 1], 1)
    ELSE [st EXCEPT !.created = @ + 1, !.mainPending = @ + 1,
                    !.changes = (inp.diff = "changes")]

MainInit ==
    /\ DPIdle
    /\ \/ \E x \in BOOLEAN, deps \in BOOLEAN, top \in TopOutcomes, ve \in BOOLEAN,
             v \in ListsUpTo(ProjectOutcomes, MaxProjects) :
             /\ ve => v = <<>>
             /\ fnIn = [fn |-> "main", mode |-> "describe", exitFirst |-> x,
                        deps |-> deps, top |-> top, vendoredErr |-> ve,
                        vendored |-> v, diff |-> "same"]
       \/ \E d \in DiffOutcomes :
             fnIn = [fn |-> "main", mode |-> "diff", exitFirst |-> FALSE,
                     deps |-> FALSE, top |-> "described", vendoredErr |-> FALSE,
                     vendored |-> <<>>, diff |-> d]
       \/ \E t \in {"needImportPath", "projectFatal", "described"} :
             fnIn = [fn |-> "main", mode |-> "only-importpath", exitFirst |-> FALSE,
                     deps |-> FALSE, top |-> t, vendoredErr |-> FALSE,
                     vendored |-> <<>>, diff |-> "same"]
    /\ fnOut = [done |-> FALSE, st |-> NewProcess]

\* fnOut after a step of main that leaves the process in state st
MainStep(st, pcNext) ==
    [done |-> st.status # "running",
     st |-> IF st.status = "running" THEN [st EXCEPT !.pc = pcNext] ELSE st]

Running(at) == fnIn.fn = "main" /\ ~fnOut.done /\ fnOut.st.pc = at

DiffCall ==
    /\ Running("start")
    /\ fnIn.mode = "diff"
    /\ fnOut' = MainStep(diffBranch(fnIn, fnOut.st), "end")
    /\ UNCHANGED <<fnIn, cbtIn, cbtOut>>
    /\ UNCHANGED dpVars

OnlyImportPathCall ==
    /\ Running("start")
    /\ fnIn.mode = "only-importpath"
    /\ fnOut' = MainStep(IF fnIn.top = "needImportPath" THEN Exit(fnOut.st, 3)
                         ELSE IF fnIn.top = "projectFatal" THEN Exit(fnOut.st, 1)
                         ELSE fnOut.st, "end")
    /\ UNCHANGED <<fnIn, cbtIn, cbtOut>>
    /\ UNCHANGED dpVars

ShowTopLevelCall ==
    /\ Running("start")
    /\ fnIn.mode = "describe"
    /\ fnOut' = MainStep(showTopLevel(fnIn, fnOut.st),
                         IF fnIn.deps THEN "vendored" ELSE "end")
    /\ UNCHANGED <<fnIn, cbtIn, cbtOut>>
    /\ UNCHANGED dpVars

ShowVendoredCall ==
    /\ Running("vendored")
    /\ fnOut' = MainStep(showVendored(fnIn, fnOut.st), "end")
    /\ UNCHANGED <<fnIn, cbtIn, cbtOut>>
    /\ UNCHANGED dpVars

\* the end of main: os.Exit(2), os.Exit(5), or the return that runs main's
\* deferred calls
MainEnd ==
    /\ Running("end")
    /\ fnOut' = [done |-> TRUE,
                 st |-> IF fnOut.st.errorShown THEN Exit(fnOut.st, 2)
                        ELSE IF fnIn.mode = "diff" /\ fnOut.st.changes THEN Exit(fnOut.st, 5)
                        ELSE Exit([fnOut.st EXCEPT !.closed = @ + fnOut.st.mainPending,
                                                   !.mainPending = 0], 0)]
    /\ UNCHANGED <<fnIn, cbtIn, cbtOut>>
    /\ UNCHANGED dpVars

MainNext ==
    DiffCall \/ OnlyImportPathCall \/ ShowTopLevelCall \/ ShowVendoredCall \/ MainEnd

SpecMain == MainInit /\ [][MainNext]_vars

(***************************************************************************)
(* Properties.                                                             *)
(***************************************************************************)
Done == pc = "done"

\* positions of hist whose candidate matched the local hashes
MatchIdx == {i \in 1..Len(hist) : hist[i].c.fherr = Nil /\ hist[i].c.err = Nil /\ hist[i].c.ok}

RECURSIVE RefsAt(_, _)
\* the refs of hist at the positions in S, in order, from position i on
RefsAt(S, i) ==
    IF i > Len(hist) THEN <<>>
    ELSE (IF i \in S THEN <<hist[i].ref>> ELSE <<>>) \o RefsAt(S, i + 1)

\* the matching run of the phase that ran last
Run == RefsAt(MatchIdx, 1)

\* positions of the tags of a list that are releases: semver, no prerelease
ReleaseIdx(tags) ==
    {i \in 1..Len(tags) : NewVersion(tags[i]).ok /\ NewVersion(tags[i]).pre = ""}

\* the last release of a list, or else its last element
LastRelease(tags) ==
    IF ReleaseIdx(tags) # {} THEN tags[Max(ReleaseIdx(tags))] ELSE tags[Len(tags)]

TagMatched == phase = "tags" /\ MatchIdx # {}

PinnedMatched == phase = "pinned" /\ MatchIdx # {}

RevMatched == phase = "revs" /\ MatchIdx # {}

\* C1: once a semver tag of VersionTags matches (no pinned version having
\* matched), Revisions is never enumerated, and unless an error aborts the
\* call the Reference returned carries a tag.
C1_TagBeatsRevision ==
    (TagMatched \/ seen.tags = "matched") =>
        /\ "Revisions" \notin called
        /\ pc # "revs"
        /\ (Done /\ raised.err = Nil) => (result.kind = "ok" /\ result.ref.Tag # "")

C1_Witness ==
    /\ Done
    /\ TagMatched
    /\ project.Version # ""
    /\ result.kind = "ok"
    /\ result.ref.Tag = "v1.0.0"

\* C2: when the pinned version matches, neither VersionTags nor Revisions is
\* called, and unless a call on the working tree fails DescribeProject
\* returns a Reference that has no Tag, Rev = the pinned version and Ver =
\* the pseudo-version built for the pinned version.
C2_PinnedFirst ==
    (PinnedMatched \/ seen.pinned = "matched") =>
        /\ called \cap {"VersionTags", "Revisions"} = {}
        /\ pc \notin {"tags", "revs"}
        /\ (Done /\ raised.err = Nil) =>
              /\ log.pvArg = project.Version
              /\ log.pv = PseudoVersion(project.VCS, log.reach, log.tm, project.Version)
              /\ log.pv.kind = "ok"
              /\ result = ReturnRef([Pkg |-> project.Root, Repo |-> project.Repo,
                                     Tag |-> "", Rev |-> project.Version,
                                     Ver |-> log.pv.ver])

\* C3: when the tags phase matches and the tag resolves, the Reference has
\* Tag = Ver = chooseBestTag of the matching run, Rev = what RevisionFromTag
\* returned for that tag, Pkg and Repo from the project.
C3_TagReference ==
    (Done /\ TagMatched /\ raised.err = Nil) =>
        /\ log.rft.arg = chooseBestTag(Run)
        /\ result = ReturnRef([Pkg |-> project.Root, Repo |-> project.Repo,
                               Tag |-> chooseBestTag(Run), Rev |-> log.rft.ret,
                               Ver |-> chooseBestTag(Run)])

C3_Witness ==
    /\ Done
    /\ TagMatched
    /\ result.kind = "ok"
    /\ Run = <<"v1.1.0-rc1", "v1.0.0", "v1.0.0-rc1">>
    /\ result.ref.Tag = "v1.0.0"
    /\ result.ref.Rev = RevB

\* C4: when the revisions phase is reached and a revision matches, then
\* unless an error aborts the call the Reference has Rev = the first
\* matching revision in the order of Revisions, no Tag, and Ver = the
\* pseudo-version built for that revision.
C4_NewestRevision ==
    (Done /\ RevMatched /\ raised.err = Nil) =>
        /\ seen.pinned # "matched" /\ seen.tags = "nomatch"
        /\ log.pvArg = hist[Min(MatchIdx)].ref
        /\ log.pv = PseudoVersion(project.VCS, log.reach, log.tm, hist[Min(MatchIdx)].ref)
        /\ log.pv.kind = "ok"
        /\ result = ReturnRef([Pkg |-> project.Root, Repo |-> project.Repo,
                               Tag |-> "", Rev |-> hist[Min(MatchIdx)].ref,
                               Ver |-> log.pv.ver])

C4_Witness ==
    /\ Done
    /\ RevMatched
    /\ result.kind = "ok"
    /\ MatchIdx = {2, 3}
    /\ result.ref.Rev = hist[2].ref

\* the ref a Reference reports: the tag in the tags phase, else the revision
Reported == IF phase = "tags" THEN result.ref.Tag ELSE result.ref.Rev

\* C5 as stated: the ref reported for a phase is the first matching ref of
\* the run in enumeration order.
C5_FirstMatchWins ==
    (Done /\ result.kind = "ok") => Reported = hist[Min(MatchIdx)].ref

\* C5 amended: candidates are tested in the order of the list, tags before
\* revisions, the run is the matching refs from the first match up to the
\* first mismatch; the pinned and the revisions phase report the first ref
\* of the run, the tags phase reports the last release of the run, or else
\* its last tag.
C5_RunOrder ==
    /\ Len(hist) <= Len(refs)
    /\ \A i \in 1..Len(hist) : hist[i].ref = refs[i]
    /\ "Revisions" \in called => "VersionTags" \in called
    /\ loop.matches = Run
    /\ \A i \in 1..Len(hist) :
          (MatchIdx # {} /\ Min(MatchIdx) < i /\ i < Max(MatchIdx)) =>
              (i \in MatchIdx \/ hist[i].c.fherr = ErrorInvalidRef)
    /\ \A i \in 1..Len(hist) :
          (MatchIdx # {} /\ i > Max(MatchIdx) /\ hist[i].c.fherr # ErrorInvalidRef) =>
              i = Len(hist)
    /\ (Done /\ result.kind = "ok") =>
          Reported = IF phase = "tags" THEN LastRelease(Run) ELSE Run[1]

C5_Witness ==
    /\ Done
    /\ result.kind = "ok"
    /\ phase = "tags"
    /\ Len(Run) >= 2
    /\ result.ref.Tag # hist[Min(MatchIdx)].ref

RECURSIVE Replay(_, _, _)
\* the loop of matchFromRefs run over the candidates of h from position i on
Replay(st, h, i) ==
    IF i > Len(h) THEN st
    ELSE Replay(LoopStep(st, h[i].ref, h[i].c), h, i + 1)

IsValidRef(e) == e.c.fherr # ErrorInvalidRef

\* C7: matchFromRefs is where it would be had the refs for which
\* FileHashesFromRef returned ErrorInvalidRef not been in the list: same
\* matches, same decision to stop, same error, hence the same return value.
C7_InvalidRefAbsent ==
    /\ loop = Replay(EmptyLoop, SelectSeq(hist, IsValidRef), 1)
    /\ matchFromRefsReturn(loop)
          = matchFromRefsReturn(Replay(EmptyLoop, SelectSeq(hist, IsValidRef), 1))

C7_Witness ==
    /\ LoopLeft
    /\ Len(hist) = 3
    /\ hist[1].c.ok
    /\ hist[2].c.fherr = ErrorInvalidRef
    /\ hist[3].c.ok
    /\ matchFromRefsReturn(loop) = [matches |-> <<hist[1].ref, hist[3].ref>>, err |-> Nil]

\* the loop of the last phase ended with no match and no error
NothingFound == (idx > Len(refs) \/ loop.stop) /\ MatchIdx = {} /\ loop.err = Nil

\* matchFromRefs is about to return ErrorVersionNotFound
PhaseNotFound == pc = "loop" /\ NothingFound

C8_State ==
    /\ (Done /\ result.kind = "err" /\ result.err = ErrorVersionNotFound) =>
          /\ phase = "revs"
          /\ MatchIdx = {}
          /\ seen.pinned \in {"notrun", "nomatch"}
          /\ seen.tags = "nomatch"
          /\ {"VersionTags", "Revisions"} \subseteq called
    /\ (pc = "tags" /\ project.Version # "") => (phase = "pinned" /\ NothingFound)
    /\ pc = "revs" => (phase = "tags" /\ NothingFound)

C8_Step ==
    PhaseNotFound =>
        /\ phase = "pinned" => pc' = "tags"
        /\ phase = "tags" => pc' = "revs"
        /\ phase = "revs" => (pc' = "done" /\ result' = ReturnErr(ErrorVersionNotFound))

\* C8: a phase that ends with ErrorVersionNotFound hands over to the next
\* phase (pinned to tags, tags to revisions), and DescribeProject returns
\* ErrorVersionNotFound only from the revisions phase, when no pinned
\* version, no tag and no revision matched.
C8_Fallthrough == []C8_State /\ [][C8_Step]_vars

C8_Witness ==
    /\ Done
    /\ result.err = ErrorVersionNotFound
    /\ seen = [pinned |-> "nomatch", tags |-> "nomatch", revs |-> "nomatch"]
    /\ Len(hist) = 2

\* C9: after an error other than ErrorInvalidRef and ErrorVersionNotFound no
\* further call is made on the working tree, the loop of matchFromRefs is
\* left, and DescribeProject returns that error (with the context it was
\* wrapped in) and no Reference.
C9_ErrorsAbort ==
    raised.err # Nil =>
        /\ ~raised.late
        /\ Done \/ LoopLeft
        /\ Done => (result.kind = "err" /\ result.ref = NoReference
                                        /\ Cause(result.err) = Cause(raised.err))

C9_Witness ==
    /\ Done
    /\ phase = "tags"
    /\ MatchIdx # {}
    /\ raised.err = Wrap(ErrCheckout, "RevSync to v1.0.0")
    /\ result.err = raised.err

\* C10: the working tree DescribeProject created is closed when it returns,
\* whatever it returns, it is closed once, and it is not closed earlier.
C10_ClosedOnce ==
    /\ wt.closes <= 1
    /\ wt.state = "closed" <=> wt.closes = 1
    /\ wt.state = "none" <=>
          (pc = "start" \/ (Done /\ result.err \in {ErrTempDir, ErrClone, ErrGoSource}))
    /\ wt.state = "closed" <=> wt.dir = "removed"
    /\ Done => wt.state # "open"
    /\ ~Done => wt.closes = 0

C10_Witness ==
    /\ Done
    /\ result.kind = "panic"
    /\ wt.state = "closed"
    /\ wt.closes = 1

\* C11: when NewWorkingTree fails, no temporary directory is left behind by
\* the time its error is returned.
C11_NoDirLeftBehind ==
    (Done /\ result.err \in {ErrTempDir, ErrClone, ErrGoSource}) => wt.dir # "present"

\* the files of h are those of th, except that some Go files of th hash to
\* the local hash only once their import comments are stripped
EqualAfterStrip(h, th, env) ==
    /\ DOMAIN h \subseteq DOMAIN th
    /\ env.sync = Nil
    /\ env.file.err = Nil /\ env.file.tmp = Nil /\ env.file.herr = Nil
    /\ \E p \in DOMAIN h : th[p] # h[p]
    /\ \A p \in DOMAIN h :
          IF HasSuffix(p, ".go") /\ env.file.changed THEN env.file.hash = h[p]
          ELSE th[p] = h[p]

\* C12: with strip set, a ref whose files differ from the local ones only by
\* import comments is reported as a match, whatever the sub-path (stated for
\* the call of matchFromRefs on the pinned version).
C12_StripMatch ==
    (/\ phase = "pinned" /\ Len(hist) = 1 /\ strip
     /\ log.pinned.fo.err = Nil
     /\ EqualAfterStrip(hashes, log.pinned.fo.tree, log.pinned.env))
        => hist[1].c.ok

\* C12 for a project at the root of its repository
C12_StripMatchAtRoot == project.SubPath = "" => C12_StripMatch

\* the elements of a sequence
Elems(q) == {q[i] : i \in 1..Len(q)}

\* the paths of h that are missing from s or have another hash there
Differing(h, s) == {p \in DOMAIN h : p \notin DOMAIN s \/ h[p] # s[p]}

\* C13: a table compared with itself has no mismatches, with failFast and
\* without, and is a subset of itself.
C13_Reflexive ==
    (fnOut.done /\ fnIn.fn = "Mismatches" /\ fnIn.h = fnIn.s) =>
        (fnOut.mismatches = <<>> /\ fnOut.subset)

C13_Witness ==
    /\ fnOut.done
    /\ fnIn.fn = "Mismatches"
    /\ fnIn.h = fnIn.s
    /\ fnIn.failFast
    /\ Cardinality(DOMAIN fnIn.h) = 3
    /\ fnOut.subset

\* C14: without failFast Mismatches returns, once each, exactly the paths of
\* a that b lacks or hashes differently; with failFast it returns one of
\* them when there is any and nothing otherwise; IsSubsetOf holds exactly
\* when there is none.
C14_Mismatches ==
    (fnOut.done /\ fnIn.fn = "Mismatches") =>
        /\ Elems(fnOut.mismatches) \subseteq Differing(fnIn.h, fnIn.s)
        /\ ~fnIn.failFast =>
              /\ Elems(fnOut.mismatches) = Differing(fnIn.h, fnIn.s)
              /\ Len(fnOut.mismatches) = Cardinality(Differing(fnIn.h, fnIn.s))
        /\ fnIn.failFast =>
              /\ Len(fnOut.mismatches) <= 1
              /\ Len(fnOut.mismatches) = 1 <=> Differing(fnIn.h, fnIn.s) # {}
        /\ fnOut.subset <=> Differing(fnIn.h, fnIn.s) = {}

C14_Witness ==
    /\ fnOut.done
    /\ fnIn.fn = "Mismatches"
    /\ fnIn.failFast
    /\ Cardinality(Differing(fnIn.h, fnIn.s)) = 2
    /\ DOMAIN fnIn.s \ DOMAIN fnIn.h # {}
    /\ Len(fnOut.mismatches) = 1
    /\ ~fnOut.subset

\* path is in X or lies beneath a directory that is in X
Covered(path, X) == path \in X \/ \E d \in X : HasPrefix(path, d \o "/")

\* the directories of the tree that can hold a .gitattributes
GaDirs == {FsRoot, JoinPath(FsRoot, "sub")}

\* the paths the .gitattributes files of the tree mark export-subst
Marked(fs) == UNION {ExportSubst(d, GaOf(fs, d).lines) : d \in GaDirs}

\* the regular files of the tree
FileEntries(fs) == {e \in Elems(FsEntries(fs)) : e.kind = "file"}

\* the table holds exactly the regular files that X does not cover, each
\* under its path relative to the root and with its hash
HoldsAllBut(tbl, fs, X) ==
    /\ DOMAIN tbl = {Rel(FsRoot, e.path) : e \in {f \in FileEntries(fs) : ~Covered(f.path, X)}}
    /\ \A e \in FileEntries(fs) :
          ~Covered(e.path, X) => tbl[Rel(FsRoot, e.path)] = HashOf(e.path)

\* C15 as stated: the table NewFileHashes builds has no entry for a path in
\* excludes or beneath an excluded directory, and one entry for every other
\* regular file under root.
C15_AllButExcludes ==
    (fnIn.fn = "NewFileHashes" /\ fnOut.done /\ fnOut.err = Nil) =>
        HoldsAllBut(fnOut.hashes, fnIn.fs, fnOut.passed)

\* C15 amended: no entry for a path in excludes or beneath an excluded
\* directory, nor for a path a visited .gitattributes marks export-subst or
\* beneath such a directory; one entry, under its root-relative path, for
\* every other regular file under root.
C15_AllButExcludesAndExportSubst ==
    (fnIn.fn = "NewFileHashes" /\ fnOut.done /\ fnOut.err = Nil) =>
        HoldsAllBut(fnOut.hashes, fnIn.fs, fnOut.passed \cup Marked(fnIn.fs))

C15_Witness ==
    /\ fnIn.fn = "NewFileHashes" /\ fnOut.done /\ fnOut.err = Nil
    /\ ~fnIn.viaDescribe
    /\ fnIn.excludes = {JoinPath(FsRoot, "sub"), "a.go"}
    /\ fnIn.fs.sub = "full" /\ fnIn.fs.vendor = "full" /\ fnIn.fs.a /\ fnIn.fs.link
    /\ fnIn.fs.ga.lines = {<<"a.go", "export-subst">>, <<"link">>}
    /\ DOMAIN fnOut.hashes = {".gitattributes", "vendor/c.go"}

\* C16: the exclusion map of the caller is the same after every call of
\* NewFileHashes and of DescribeProject as before the first one.
C16_ExcludesUntouched ==
    (fnIn.fn = "NewFileHashes") => fnOut.excludes = fnIn.excludes

C16_Witness ==
    /\ fnIn.fn = "NewFileHashes"
    /\ fnIn.viaDescribe
    /\ fnOut.calls = 2
    /\ JoinPath(FsRoot, "vendor") \in fnOut.passed \ fnOut.excludes
    /\ JoinPath(FsRoot, "a.go") \in fnOut.excl \ fnOut.passed
    /\ fnOut.excludes = {JoinPath(FsRoot, "sub")}

\* C6: chooseBestTag returns the last tag of the list that is a semver
\* without prerelease, or the last tag of the list when there is none.
C6_ChooseBestTag ==
    cbtOut # "" =>
        IF ReleaseIdx(cbtIn) # {}
        THEN cbtOut = cbtIn[Max(ReleaseIdx(cbtIn))]
        ELSE cbtOut = cbtIn[Len(cbtIn)]

C6_Witness ==
    /\ cbtIn = <<"1.2.3-beta1", "1.2.2", "1.2.2-beta2">>
    /\ cbtOut = "1.2.2"


(***************************************************************************)
(* PseudoVersion.                                                          *)
(***************************************************************************)
PvDone == fnIn.fn = "PseudoVersion" /\ fnOut.done

\* the call reaches the last statement of PseudoVersion
PvComposes ==
    /\ fnIn.vcs = vcsGit
    /\ fnIn.reach.err \in {Nil, ErrorVersionNotFound}
    /\ fnIn.tm.err = Nil
    /\ Len(fnIn.rev) >= 12

\* V and the suffix, written out for each answer of ReachableTag
ExpectedBase(reach) ==
    IF reach.err = ErrorVersionNotFound THEN "v0.0.0-0."
    ELSE IF reach.tag = "v1.2.0beta1" THEN "v1.2.0beta1-1."
    ELSE IF reach.tag = "v1.2.0" THEN "v1.2.1-0."
    ELSE IF reach.tag = "v1.2" THEN "v1.2.1-0."
    ELSE IF reach.tag = "1.9.9" THEN "v1.9.10-0."
    ELSE IF reach.tag = "v1.2.0-pre1" THEN "v1.2.0-pre1.0."
    ELSE "?"

\* the 14 characters before the "-" and the 12 characters of the revision
Timestamp(ver) == SubSeq(ver, Len(ver) - 26, Len(ver) - 13)

C18_ErrorsReturned ==
    PvDone =>
        /\ ("ReachableTag" \in fnOut.calls
                /\ fnIn.reach.err \notin {Nil, ErrorVersionNotFound})
              => /\ fnOut.ret = [kind |-> "err", err |-> fnIn.reach.err]
                 /\ "TimeFromRevision" \notin fnOut.calls
        /\ ("TimeFromRevision" \in fnOut.calls /\ fnIn.tm.err # Nil)
              => fnOut.ret = [kind |-> "err", err |-> fnIn.tm.err]

C18_Witness ==
    /\ PvDone
    /\ "ReachableTag" \in fnOut.calls
    /\ fnIn.reach.err = ErrDescribe
    /\ fnOut.ret = [kind |-> "err", err |-> ErrDescribe]
    /\ "TimeFromRevision" \notin fnOut.calls

\* t.UTC() of a time whose UTC wall clock falls on the same day
InUTC(t) ==
    [t EXCEPT !.hour = (60 * t.hour + t.min - t.off) \div 60,
              !.min = (60 * t.hour + t.min - t.off) % 60,
              !.off = 0]

\* C19: the timestamp of a pseudo-version is the commit time rendered in
\* UTC, whatever offset the commit time was reported with.
C19_TimestampInUTC ==
    (PvDone /\ fnOut.ret.kind = "ok") =>
        Timestamp(fnOut.ret.ver) = FormatTime(InUTC(fnIn.tm.t))

\* a commit time of 16:47:29+01:00 is rendered with its own wall clock
C19_LocalWallClock ==
    (PvDone /\ fnOut.ret.kind = "ok" /\ fnIn.tm.t.off = 60) =>
        Timestamp(fnOut.ret.ver) = "20180920164729"



\* C29: PseudoVersion is total: for every rev, also one shorter than 12
\* characters, it returns a version that begins its last field with the
\* leading characters of rev, or an error, and never ends abnormally.
C29_Total ==
    PvDone =>
        /\ fnOut.ret.kind \in {"ok", "err"}
        /\ fnOut.ret.kind = "ok" =>
              \E n \in 1..Len(fnIn.rev) :
                 SubSeq(fnOut.ret.ver, Len(fnOut.ret.ver) - n + 1, Len(fnOut.ret.ver))
                     = SubSeq(fnIn.rev, 1, n)

\* C29 for the revisions of at least 12 characters
C29_TotalOnFullRevisions == Len(fnIn.rev) >= 12 => C29_Total


\* C28: DescribeProject returns ErrorNoFiles when no local file is left once
\* the entries whose path starts with "." are dropped, and then no upstream
\* candidate has been queried; otherwise it goes on with a table that is
\* not empty and has no such entry.
C28_NoFiles ==
    /\ (Done /\ result.err = ErrorNoFiles) =>
          /\ DOMAIN hashes = {}
          /\ called = {}
          /\ phase = "none" /\ hist = <<>>
          /\ wt.checkout = ""
    /\ (pc \in {"pinned", "tags", "revs", "loop"} \/ phase # "none") =>
          /\ DOMAIN hashes # {}
          /\ \A p \in DOMAIN hashes : ~HasPrefix(p, ".")
          /\ result.err # ErrorNoFiles

C28_Witness ==
    /\ Done
    /\ result = ReturnErr(ErrorNoFiles)
    /\ wt.state = "closed"
    /\ called = {}


\* positions of the calls of op in the trace ops
OpsAt(ops, op) == {k \in 1..Len(ops) : ops[k].op = op}

\* C21: for every candidate the mutation step runs on, RevSync is called
\* exactly once, with the ref of the candidate and before every
\* StripImportComment made for it; each of these reads the checkout of that
\* ref; and the calls of a candidate lie between its own query and the query
\* of the next candidate.
C21_SyncThenStrip ==
    \A i \in 1..Len(hist) :
       /\ hist[i].ops[1] = [op |-> "FileHashesFromRef", at |-> hist[i].ref]
       /\ OpsAt(hist[i].ops, "FileHashesFromRef") = {1}
       /\ Cardinality(OpsAt(hist[i].ops, "RevSync")) <= 1
       /\ \A k \in OpsAt(hist[i].ops, "RevSync") : hist[i].ops[k].at = hist[i].ref
       /\ \A k \in OpsAt(hist[i].ops, "StripImportComment") :
             /\ \E j \in OpsAt(hist[i].ops, "RevSync") : j < k
             /\ hist[i].ops[k].at = hist[i].ref
       /\ (i = Len(hist) /\ OpsAt(hist[i].ops, "StripImportComment") # {}) =>
             wt.checkout = hist[i].ref \/ wt.state = "closed"

C21_Witness ==
    /\ Len(hist) = 2
    /\ Cardinality(OpsAt(hist[1].ops, "StripImportComment")) = 2
    /\ Cardinality(OpsAt(hist[2].ops, "StripImportComment")) = 2
    /\ hist[1].ref # hist[2].ref
    /\ wt.checkout = hist[2].ref


(***************************************************************************)
(* ReachableTag.                                                           *)
(***************************************************************************)
RtDone == fnIn.fn = "ReachableTag" /\ fnOut.done

\* describe failed because no tag fits the glob
NoTagRun(run) ==
    run.err # Nil /\ ~HasPrefix(run.out, "fatal: Not a valid object name")

\* C22: ReachableTag describes with v[0-9]* and then with [0-9]*: the tag of
\* the first glob when it has one; when the first glob fails for want of a
\* tag, the tag of the second glob when it has one, ErrorVersionNotFound
\* when that fails for want of a tag too; any other failure as it is.
C22_GlobsInOrder ==
    RtDone =>
        LET r1 == fnIn.runs[1]
            r2 == fnIn.runs[2]
        IN  /\ r1.err = Nil => fnOut.ret.err = Nil
            /\ (r1.err # Nil /\ ~NoTagRun(r1)) => fnOut.ret = [tag |-> "", err |-> r1.err]
            /\ (NoTagRun(r1) /\ r2.err = Nil) =>
                  fnOut.tried = 2 /\ fnOut.ret.err = Nil /\ fnOut.ret.tag # ""
            /\ (NoTagRun(r1) /\ NoTagRun(r2)) =>
                  fnOut.ret = [tag |-> "", err |-> ErrorVersionNotFound]
            /\ (NoTagRun(r1) /\ r2.err # Nil /\ ~NoTagRun(r2)) =>
                  fnOut.ret = [tag |-> "", err |-> r2.err]

\* C22 for the answers of the first glob alone
C22_FirstGlob ==
    RtDone =>
        /\ fnIn.runs[1].err = Nil => fnOut.ret.err = Nil
        /\ (fnIn.runs[1].err # Nil /\ ~NoTagRun(fnIn.runs[1])) =>
              fnOut.ret = [tag |-> "", err |-> fnIn.runs[1].err]
        /\ NoTagRun(fnIn.runs[1]) => fnOut.ret = [tag |-> "", err |-> ErrorVersionNotFound]

\* C23: ReachableTag returns the reachable tag as it is named in the
\* repository, for the output tag-N-gSHA as for the output that is the tag
\* itself, dashes in the name or not.
C23_TagAsNamed ==
    (RtDone /\ fnIn.runs[1].err = Nil) =>
        fnOut.ret = [tag |-> fnIn.runs[1].tag, err |-> Nil]

\* C23 for the output tag-N-gSHA and for tags with at most one dash
C23_TagAsNamedUnlessDashes ==
    (/\ RtDone /\ fnIn.runs[1].err = Nil
     /\ fnIn.runs[1].n > 0 \/ Len(Split(fnIn.runs[1].tag, "-")) < 3) =>
        fnOut.ret = [tag |-> fnIn.runs[1].tag, err |-> Nil]


(***************************************************************************)
(* VersionTags.                                                            *)
(***************************************************************************)
\* the place of each tag of RepoTags in the order of semantic versions, 0
\* for a tag that is none; 1.2 and v1.2.0 are the same version
Rank(tag) ==
    IF tag = "v1.2.0-rc.2" THEN 1
    ELSE IF tag = "v1.2.0-rc1" THEN 2
    ELSE IF tag \in {"v1.2.0", "1.2"} THEN 3
    ELSE IF tag = "v1.10.0" THEN 4
    ELSE 0

\* C24: VersionTags returns the tags that parse as semantic versions, each
\* once and as spelled, none that does not parse, and no element has a
\* greater version than an element before it.
C24_VersionTags ==
    (fnIn.fn = "VersionTags" /\ fnOut.done /\ fnIn.listing.err = Nil) =>
        /\ fnOut.ret.err = Nil
        /\ Elems(fnOut.ret.tags) = {t \in Elems(fnIn.listing.tags) : Rank(t) > 0}
        /\ \A i, j \in 1..Len(fnOut.ret.tags) :
              /\ fnOut.ret.tags[i] = fnOut.ret.tags[j] => i = j
              /\ i < j => Rank(fnOut.ret.tags[j]) <= Rank(fnOut.ret.tags[i])

C24_Witness ==
    /\ fnIn.fn = "VersionTags" /\ fnOut.done
    /\ fnIn.listing = [tags |-> <<"latest", "v1.2.0", "v1.10.0">>, err |-> Nil]
    /\ fnOut.ret = [tags |-> <<"v1.10.0", "v1.2.0">>, err |-> Nil]


(***************************************************************************)
(* FileHashesFromRef.                                                      *)
(***************************************************************************)
\* the files of LsPaths below pkg, each with its path from pkg
BelowPkg ==
    [p \in {"pkg/a.go", "pkg/b c.go", "pkg/sub/e.go"} |->
        IF p = "pkg/a.go" THEN "a.go" ELSE IF p = "pkg/b c.go" THEN "b c.go" ELSE "sub/e.go"]

\* C26: with a sub-path FileHashesFromRef returns the files under it and
\* no other, each keyed by its path from the sub-path, names with spaces
\* whole; without one it returns every file keyed by its path from the top
\* of the repository.
C26_KeysRelativeToSubPath ==
    (fnIn.fn = "FileHashesFromRef" /\ fnOut.done /\ fnIn.run.err = Nil
       /\ fnIn.run.lines # <<"what?">>) =>
        /\ fnOut.ret.err = Nil
        /\ fnIn.subPath = "" => fnOut.ret.tree = fnIn.repo
        /\ fnIn.subPath = "pkg" =>
              /\ DOMAIN fnOut.ret.tree =
                     {BelowPkg[p] : p \in DOMAIN fnIn.repo \cap DOMAIN BelowPkg}
              /\ \A p \in DOMAIN fnIn.repo \cap DOMAIN BelowPkg :
                    fnOut.ret.tree[BelowPkg[p]] = fnIn.repo[p]

C26_Witness ==
    /\ fnIn.fn = "FileHashesFromRef" /\ fnOut.done
    /\ fnIn.subPath = "pkg"
    /\ DOMAIN fnIn.repo = Elems(LsPaths)
    /\ DOMAIN fnOut.ret.tree = {"a.go", "b c.go", "sub/e.go"}
    /\ fnOut.ret.tree["b c.go"] = fnIn.repo["pkg/b c.go"]
    /\ fnOut.ret.err = Nil

(***************************************************************************)
(* The short-circuit of the vendor walk.                                   *)
(***************************************************************************)
VpDone == fnIn.fn = "VendoredProjects" /\ fnOut.done

\* path lies in the directory d or below it
Under(path, d) == path = d \/ HasPrefix(path, d \o "/")

\* the directory of the project root most recently identified before call k
LastRootDir(calls, k) ==
    LET ok == {j \in 1..(k - 1) : calls[j].kind = "ok"}
    IN  IF ok = {} THEN "" ELSE JoinPath(VendorDir, calls[Max(ok)].root)

\* C27: the resolver is never called for a path under the root directory of
\* the project identified last, a sibling directory whose name merely starts
\* with that of a project is still resolved, no project root is resolved
\* twice in the walk, and the result maps every identified root to its
\* RepoPath.
C27_ShortCircuit ==
    VpDone =>
        LET r == fnOut.ret
        IN  /\ \A k \in 1..Len(r.calls) :
                 LastRootDir(r.calls, k) # "" => ~Under(r.calls[k].pth, LastRootDir(r.calls, k))
            /\ (r.kind = "ok" /\ "github.com/foo/bar-baz/z.go" \in fnIn.present)
                  => \E k \in 1..Len(r.calls) : r.calls[k].root = "github.com/foo/bar-baz"
            /\ \A i, j \in 1..Len(r.calls) :
                 (r.calls[i].kind = "ok" /\ r.calls[i].root = r.calls[j].root) => i = j
            /\ r.kind = "ok" =>
                 /\ DOMAIN r.vendored = {r.calls[k].root : k \in 1..Len(r.calls)}
                 /\ \A k \in 1..Len(r.calls) :
                      /\ r.vendored[r.calls[k].root].Root = r.calls[k].root
                      /\ r.vendored[r.calls[k].root]
                            = IF r.calls[k].root \in DOMAIN fnIn.repoPaths
                              THEN fnIn.repoPaths[r.calls[k].root]
                              ELSE [Root |-> r.calls[k].root,
                                    Repo |-> "https://" \o r.calls[k].root]

\* a walk that meets two files of one project and then a file of the sibling
\* directory bar-baz
C27_Witness ==
    /\ VpDone
    /\ fnOut.ret.kind = "ok"
    /\ {"github.com/foo/bar/bar.go", "github.com/foo/bar/pkg/p.go",
        "github.com/foo/bar-baz/z.go"} \subseteq fnIn.present
    /\ Len(fnOut.ret.calls) >= 2
    /\ {"github.com/foo/bar", "github.com/foo/bar-baz"} \subseteq DOMAIN fnOut.ret.vendored

(***************************************************************************)
(* Working trees of the command-line program at the end of the process.   *)
(***************************************************************************)
ProcessEnded == fnIn.fn = "main" /\ fnOut.done

\* C30: when the process has ended, every working tree that newWorkingTree
\* returned has been closed, also after a fatal error of DescribeProject or
\* DescribeVendoredProject and after the exit that -x makes at the first
\* unidentified project.
C30_AllClosed == ProcessEnded => fnOut.st.closed = fnOut.st.created

\* the working trees are all closed when the process ends by returning from
\* main in the describing mode, or by the os.Exit(2) at the end of main
C30_ClosedAtEndOfMain ==
    (ProcessEnded /\ fnIn.mode = "describe" /\ fnOut.st.pc = "end")
        => fnOut.st.closed = fnOut.st.created

(***************************************************************************)
(* The gate of the mutation step.                                          *)
(***************************************************************************)
\* the call of matchFromRefs on the pinned version has tried its candidate
\* and FileHashesFromRef gave its table
PinnedTried ==
    phase = "pinned" /\ Len(hist) = 1 /\ log.pinned.fo.err = Nil

\* strip is usesGodep and a directory other than the top-level one
StripGate == phase # "none" => strip = (src.usesGodep /\ dir # src.Path)

\* without strip a candidate matches by subset comparison alone and the
\* checkout is never moved
NoStripNoSync ==
    ~strip =>
        /\ "RevSync" \notin called
        /\ "StripImportComment" \notin called
        /\ wt.checkout = ""
        /\ PinnedTried => (hist[1].c.ok <=> IsSubsetOf(hashes, log.pinned.fo.tree))

\* with strip, a candidate that lacks a local path is rejected unsynced
MissingPathRejected ==
    (/\ strip /\ PinnedTried
     /\ \E p \in DOMAIN hashes : p \notin DOMAIN log.pinned.fo.tree)
        => /\ ~hist[1].c.ok
           /\ "RevSync" \notin called
           /\ wt.checkout = ""

\* C20: strip is usesGodep and dir # top-level path; when strip is false a
\* candidate matches only by subset comparison, RevSync and
\* StripImportComment are never called and the checkout is never moved; when
\* strip is true and a local path is missing from the upstream table the
\* candidate is rejected without a call of RevSync.
C20_StripGate == StripGate /\ NoStripNoSync /\ MissingPathRejected

\* C20 without its last part, and its last part for a project at the root
\* of its repository
C20_StripGateAtRoot ==
    /\ StripGate
    /\ NoStripNoSync
    /\ project.SubPath = "" => MissingPathRejected


(***************************************************************************)
(* The export-subst skip.                                                  *)
(***************************************************************************)
\* the regular files that lie directly in the directory d
FilesIn(fs, d) ==
    {e \in FileEntries(fs) :
        HasPrefix(e.path, d \o "/") /\ IndexOf(Rel(d, e.path), "/") = 0}

\* the walk of NewFileHashes visits d and reads its .gitattributes
Visited(fs, d, X) ==
    /\ \E e \in Elems(FsEntries(fs)) : e.path = d
    /\ GaOf(fs, d).state = "present"
    /\ ~Covered(d, X \cup Marked(fs))

\* the .gitattributes of d names the file e on a line that has export-subst
\* after its first field
NamedExportSubst(fs, d, e) ==
    \E l \in GaOf(fs, d).lines :
       /\ Len(l) >= 2
       /\ "export-subst" \in {l[k] : k \in 2..Len(l)}
       /\ e.path = d \o "/" \o l[1]

\* C25: when a directory under root holds a .gitattributes, a file named by
\* the first field of a line with export-subst among its later fields has
\* no entry in the table NewFileHashes builds, and every other file of that
\* directory (that the exclusion list does not cover) has its entry.
C25_ExportSubstSkip ==
    (fnIn.fn = "NewFileHashes" /\ fnOut.done /\ fnOut.err = Nil) =>
        \A d \in GaDirs :
           Visited(fnIn.fs, d, fnOut.passed) =>
              \A e \in FilesIn(fnIn.fs, d) :
                 IF NamedExportSubst(fnIn.fs, d, e)
                 THEN Rel(FsRoot, e.path) \notin DOMAIN fnOut.hashes
                 ELSE Covered(e.path, fnOut.passed)
                         \/ /\ Rel(FsRoot, e.path) \in DOMAIN fnOut.hashes
                            /\ fnOut.hashes[Rel(FsRoot, e.path)] = HashOf(e.path)

C25_Witness ==
    /\ fnIn.fn = "NewFileHashes" /\ fnOut.done /\ fnOut.err = Nil
    /\ fnIn.excludes = {}
    /\ ~fnIn.viaDescribe
    /\ fnIn.fs.a /\ fnIn.fs.sub = "marked" /\ fnIn.fs.vendor = "full"
    /\ fnIn.fs.ga.lines = {<<"a.go", "export-subst">>, <<"sub/b.go", "ident">>}
    /\ DOMAIN fnOut.hashes = {".gitattributes", "sub/.gitattributes", "vendor/c.go"}

====
